---- MODULE Spec2Model ----
(***************************************************************************)
(* Model of the rollout controller's stage-checking decision engine        *)
(* (rs/rollout-controller/src/calculation/stage_checks.rs).                *)
(*                                                                         *)
(* Representation                                                          *)
(*  - A PrincipalId is a natural number; the numeric order is the order of *)
(*    the principal's bytes (the BTreeMap order).  to_string gives its     *)
(*    textual form, a sequence of characters (naturals); the textual order *)
(*    is unrelated to the byte order.                                      *)
(*  - An f64 number of seconds is an integer number of quanta, NanosQ      *)
(*    quanta to the nanosecond, so that values between two nanoseconds     *)
(*    exist.  A Duration is a whole number of nanoseconds.                 *)
(*  - A NaiveDate is a day number; day 0 is a Monday.                      *)
(*  - A result is [kind, actions, error]: kind "Ok" carries the actions,   *)
(*    kind "Err" an anyhow error, kind "Panic" the message of a panic.     *)
(*                                                                         *)
(* State machine                                                           *)
(*  The variables are the snapshot the controller passes to check_stages   *)
(*  and the result of the call.  Every step is one iteration of the        *)
(*  controller: the snapshot changes in one way, then check_stages runs on *)
(*  it.  The rollout's own changes (submitting the placed proposals, their *)
(*  execution, bake samples, the date) may happen in any order; `foreign`  *)
(*  records that one change from outside the rollout has happened.         *)
(*  The call goes through the driver's gates (rollout.pause, skip_days),   *)
(*  which live outside stage_checks.rs and are modelled from the design.   *)
(*  Spec starts from one plan the day before the Monday; PlanSpec starts   *)
(*  from other plans (paused, with skip days, with prefixes that name two  *)
(*  subnets or none, that are short or name one subnet twice), catalogs,   *)
(*  fleets and dates, without outside changes.                             *)
(*  BakeSpec calls get_remaining_bake_time_for_subnet alone, on samples    *)
(*  and bake requirements of either sign.                                  *)
(*  LiveSpec is the closed loop of a rollout from the old release to the   *)
(*  new one, with fairness of the steps; HopSpec starts two releases       *)
(*  behind, so that one rollout ends and the next begins.                  *)
(***************************************************************************)
EXTENDS Integers, Sequences, FiniteSets, TLC

VARIABLES index, subnets, last_bake_status, subnet_update_proposals,
          unassigned_node_update_proposals, unassigned_version, now,
          result, foreign

vars == <<index, subnets, last_bake_status, subnet_update_proposals,
          unassigned_node_update_proposals, unassigned_version, now,
          result, foreign>>

-----------------------------------------------------------------------------
(* Bounds of the model *)

\* largest bake sample (quanta) the telemetry reports
MaxBake == 4
\* last day (day number) the clock reaches
MaxDay == 21
\* most proposals in either proposal list
MaxProposals == 3

-----------------------------------------------------------------------------
(* Values *)

\* quanta of an f64 second count per nanosecond of a Duration
NanosQ == 3

Min(S) == CHOOSE x \in S : \A y \in S : x <= y

Ok(actions) == [kind |-> "Ok", actions |-> actions, error |-> "none"]
Err(error) == [kind |-> "Err", actions |-> <<>>, error |-> error]
Panic(msg) == [kind |-> "Panic", actions |-> <<>>, error |-> msg]

\* enum SubnetAction
Noop(subnet_short) == [type |-> "Noop", subnet_short |-> subnet_short]
Baking(subnet_short, remaining) ==
    [type |-> "Baking", subnet_short |-> subnet_short, remaining |-> remaining]
PendingProposal(subnet_short, proposal_id) ==
    [type |-> "PendingProposal", subnet_short |-> subnet_short,
     proposal_id |-> proposal_id]
PlaceProposal(is_unassigned, subnet_principal, version) ==
    [type |-> "PlaceProposal", is_unassigned |-> is_unassigned,
     subnet_principal |-> subnet_principal, version |-> version]
WaitForNextWeek(subnet_short) ==
    [type |-> "WaitForNextWeek", subnet_short |-> subnet_short]

\* the literals "unassigned-version", "unassigned-nodes" and "": no
\* principal's text starts with character 0
UnassignedVersionLabel == <<0, 1>>
UnassignedNodesLabel == <<0, 2>>
EmptyString == <<>>

\* str::starts_with
starts_with(s, prefix) ==
    /\ Len(prefix) <= Len(s)
    /\ SubSeq(s, 1, Len(prefix)) = prefix

\* Iterator::position and Iterator::find, given the set of the positions
\* (1-based) whose element satisfies the predicate: the first one; 0 is None
position(matching) == IF matching = {} THEN 0 ELSE Min(matching)

\* the text of the principals of the fleet (PrincipalId::to_string)
PrincipalText ==
    (1 :> <<1, 1, 1, 1, 1, 1>>) @@
    (2 :> <<2, 2, 2, 2, 2, 2>>) @@
    (3 :> <<1, 1, 1, 1, 1, 2>>) @@
    (4 :> <<3, 3, 3, 3, 3, 3>>)

to_string(principal) == PrincipalText[principal]

\* chrono: Datelike::weekday() == Weekday::Mon
IsMonday(date) == date % 7 = 0

\* Release::date(): the start of the release, read from its rc_name
RcDate == [rcA |-> 2, rcB |-> 9, rcM |-> 14, rcC |-> 16]

date(release) == RcDate[release.rc_name]

\* a conversion that drops the fraction of a nanosecond instead of rounding
from_secs_f64_truncating(secs) == secs \div NanosQ

\* Duration::from_secs_f64 of a non-negative f64: rounds to the nearest
\* nanosecond; the result in nanoseconds
from_secs_f64(secs) == (secs + (NanosQ \div 2)) \div NanosQ

\* Duration::as_secs_f64
as_secs_f64(duration) == duration * NanosQ

-----------------------------------------------------------------------------
(* fn week_passed *)

RECURSIVE week_passed_from(_, _)
week_passed_from(counter, today) ==
    IF counter <= today
    THEN IF IsMonday(counter) THEN TRUE
         ELSE week_passed_from(counter + 1, today)
    ELSE FALSE

\* no Monday is ever seen
week_passed_never(release_start, today) == FALSE

\* the loop starting on the day of the release itself
week_passed_inclusive(release_start, today) == week_passed_from(release_start, today)

week_passed(release_start, today) == week_passed_from(release_start + 1, today)

-----------------------------------------------------------------------------
(* fn desired_rollout_release_version *)

\* position of the first release with a version equal to the subnet's
release_position(s, releases) ==
    position({k \in 1..Len(releases) :
                 \E i \in 1..Len(releases[k].versions) :
                    releases[k].versions[i].version = s.replica_version})

\* Itertools::unique over the releases found for the subnets
subnets_releases(subnet_list, releases) ==
    {releases[release_position(subnet_list[i], releases)] :
        i \in 1..Len(subnet_list)}

\* a fleet on three releases let through
too_many_releases_three(sr) == Cardinality(sr) > 3

\* if subnets_releases.len() > 2 { panic!(..) }
too_many_releases(sr) == Cardinality(sr) > 2

\* find_or_first taking the last of the versions that pin the subnet
find_or_first_version_last(release, principal) ==
    LET pinning == {k \in 1..Len(release.versions) :
                       \E j \in 1..Len(release.versions[k].subnets) :
                          starts_with(to_string(principal),
                                      release.versions[k].subnets[j])}
    IN  release.versions[IF pinning = {} THEN 1
                         ELSE CHOOSE k \in pinning : \A other \in pinning : other <= k]

\* the default version for every subnet, pinned or not
find_or_first_version_default(release, principal) == release.versions[1]

\* Itertools::find_or_first over the versions of the release
find_or_first_version(release, principal) ==
    LET pos == position({k \in 1..Len(release.versions) :
                            \E j \in 1..Len(release.versions[k].subnets) :
                               starts_with(to_string(principal),
                                           release.versions[k].subnets[j])})
    IN  release.versions[IF pos = 0 THEN 1 ELSE pos]

\* the oldest of the releases in use instead of the newest
newest_release_position_oldest(releases, sr) ==
    LET matching == {k \in 1..Len(releases) : releases[k] \in sr}
    IN  IF matching = {} THEN 0 ELSE CHOOSE k \in matching : \A l \in matching : l <= k

\* releases.iter().find(|r| subnets_releases.contains(r)): the newest release
\* in use, the catalog being sorted newest first
newest_release_position(releases, sr) ==
    position({k \in 1..Len(releases) : releases[k] \in sr})

\* a fleet on a single release kept on that release
active_release_position_same(releases, sr, newest_pos) == newest_pos

\* a fleet on a single release sent to the newest release of the catalog
active_release_position_newest(releases, sr, newest_pos) ==
    IF Cardinality(sr) = 1 THEN 1 ELSE newest_pos

\* if subnets_releases.len() == 1 { position(..).saturating_sub(1) }
active_release_position(releases, sr, newest_pos) ==
    IF Cardinality(sr) = 1
    THEN LET pos == position({k \in 1..Len(releases) : releases[k] = releases[newest_pos]})
         IN  IF pos > 1 THEN pos - 1 ELSE 1
    ELSE newest_pos

\* the unassigned nodes following the last build of the release
unassigned_nodes_version_last(release) == release.versions[Len(release.versions)]

\* unassigned_nodes: newest_release.versions[0]
unassigned_nodes_version(release) == release.versions[1]

desired_rollout_release_version(subnet_list, releases) ==
    IF \E i \in 1..Len(subnet_list) : release_position(subnet_list[i], releases) = 0
    THEN [panic |-> "version should exist in releases"]
    ELSE
    LET sr == subnets_releases(subnet_list, releases)
    IN  IF too_many_releases(sr)
        THEN [panic |-> "more than two releases active"]
        ELSE
        LET newest_pos == newest_release_position(releases, sr)
        IN  IF newest_pos = 0
            THEN [panic |-> "should find some release"]
            ELSE
            LET newest_release == releases[active_release_position(releases, sr, newest_pos)]
            IN  IF Len(newest_release.versions) = 0
                THEN [panic |-> "versions should not be empty"]
                ELSE [panic |-> "none",
                      release |-> newest_release,
                      subnets |-> [p \in {subnet_list[i].principal :
                                             i \in 1..Len(subnet_list)}
                                     |-> find_or_first_version(newest_release, p)],
                      unassigned_nodes |-> unassigned_nodes_version(newest_release)]

-----------------------------------------------------------------------------
(* fn get_remaining_bake_time_for_subnet: Ok carries the f64 in `actions` *)

\* get_remaining_bake_time_for_subnet taking a missing sample for no bake yet
get_remaining_bake_time_for_subnet_or_full(bake_status, subnet, stage_bake_time) ==
    IF subnet.principal \notin DOMAIN bake_status
    THEN Ok(as_secs_f64(from_secs_f64(stage_bake_time)))
    ELSE LET bake == bake_status[subnet.principal]
         IN  IF bake >= stage_bake_time
             THEN Ok(0)
             ELSE Ok(as_secs_f64(from_secs_f64(stage_bake_time - bake)))

\* get_remaining_bake_time_for_subnet taking a missing sample for a full bake
get_remaining_bake_time_for_subnet_or_zero(bake_status, subnet, stage_bake_time) ==
    IF subnet.principal \notin DOMAIN bake_status
    THEN Ok(0)
    ELSE LET bake == bake_status[subnet.principal]
         IN  IF bake >= stage_bake_time
             THEN Ok(0)
             ELSE Ok(as_secs_f64(from_secs_f64(stage_bake_time - bake)))

get_remaining_bake_time_for_subnet(bake_status, subnet, stage_bake_time) ==
    IF subnet.principal \notin DOMAIN bake_status
    THEN Err("subnet not found")
    ELSE LET bake == bake_status[subnet.principal]
         IN  IF bake >= stage_bake_time
             THEN Ok(0)
             ELSE Ok(as_secs_f64(from_secs_f64(stage_bake_time - bake)))

(* fn get_open_proposal_for_subnet: position in the list, 0 is None *)

\* the lookup taking a proposal for any subnet
get_open_proposal_for_subnet_any_subnet(proposals, subnet, desired_version) ==
    position({k \in 1..Len(proposals) :
                 /\ proposals[k].replica_version_id = desired_version
                 /\ ~proposals[k].executed})

\* the lookup returning the last match
get_open_proposal_for_subnet_last(proposals, subnet, desired_version) ==
    LET matching == {k \in 1..Len(proposals) :
                        /\ proposals[k].subnet_id = subnet.principal
                        /\ proposals[k].replica_version_id = desired_version
                        /\ ~proposals[k].executed}
    IN  IF matching = {} THEN 0
        ELSE CHOOSE k \in matching : \A other \in matching : other <= k

\* get_open_proposal_for_subnet with the test of `executed` inverted
get_open_proposal_for_subnet_executed(proposals, subnet, desired_version) ==
    position({k \in 1..Len(proposals) :
                 /\ proposals[k].subnet_id = subnet.principal
                 /\ proposals[k].replica_version_id = desired_version
                 /\ proposals[k].executed})

get_open_proposal_for_subnet(proposals, subnet, desired_version) ==
    position({k \in 1..Len(proposals) :
                 /\ proposals[k].subnet_id = subnet.principal
                 /\ proposals[k].replica_version_id = desired_version
                 /\ ~proposals[k].executed})

-----------------------------------------------------------------------------
(* fn check_stage *)

\* the unassigned-nodes branch taking executed proposals for open ones
check_unassigned_nodes_any(unassigned_proposals, current_unassigned_version, desired_versions) ==
    IF current_unassigned_version # desired_versions.unassigned_nodes.version
    THEN LET pos == position({k \in 1..Len(unassigned_proposals) :
                                 /\ unassigned_proposals[k].replica_version # "None"
                                 /\ unassigned_proposals[k].replica_version =
                                       desired_versions.unassigned_nodes.version})
         IN  IF pos = 0
             THEN Ok(<<PlaceProposal(TRUE, EmptyString,
                                     desired_versions.unassigned_nodes.version)>>)
             ELSE Ok(<<PendingProposal(UnassignedVersionLabel,
                                       unassigned_proposals[pos].id)>>)
    ELSE Ok(<<Noop(UnassignedNodesLabel)>>)

\* the unassigned-nodes branch of check_stage
check_unassigned_nodes(unassigned_proposals, current_unassigned_version, desired_versions) ==
    IF current_unassigned_version # desired_versions.unassigned_nodes.version
    THEN LET pos == position({k \in 1..Len(unassigned_proposals) :
                                 /\ ~unassigned_proposals[k].executed
                                 /\ unassigned_proposals[k].replica_version # "None"
                                 /\ unassigned_proposals[k].replica_version =
                                       desired_versions.unassigned_nodes.version})
         IN  IF pos = 0
             THEN Ok(<<PlaceProposal(TRUE, EmptyString,
                                     desired_versions.unassigned_nodes.version)>>)
             ELSE Ok(<<PendingProposal(UnassignedVersionLabel,
                                       unassigned_proposals[pos].id)>>)
    ELSE Ok(<<Noop(UnassignedNodesLabel)>>)

\* check_subnet reading the bake sample before it compares the versions
check_subnet_bake_first(bake_status, subnet_proposals, stage, subnet_list, desired_versions, subnet_short) ==
    LET matching == {p \in DOMAIN desired_versions.subnets :
                        starts_with(to_string(p), subnet_short)}
    IN  IF matching = {}
        THEN Panic("should find the subnet")
        ELSE
        LET subnet_principal == Min(matching)
            desired_version == desired_versions.subnets[subnet_principal]
            subnet == subnet_list[position({k \in 1..Len(subnet_list) :
                                subnet_list[k].principal = subnet_principal})]
        IN  IF get_remaining_bake_time_for_subnet(
                   bake_status, subnet, as_secs_f64(stage.bake_time)).kind # "Ok"
            THEN get_remaining_bake_time_for_subnet(
                     bake_status, subnet, as_secs_f64(stage.bake_time))
            ELSE IF subnet.replica_version = desired_version.version
            THEN LET remaining ==
                        get_remaining_bake_time_for_subnet(
                            bake_status, subnet, as_secs_f64(stage.bake_time))
                 IN  IF remaining.kind # "Ok"
                     THEN remaining
                     ELSE IF remaining.actions # 0
                          THEN Ok(<<Baking(subnet_short,
                                           from_secs_f64(remaining.actions))>>)
                          ELSE Ok(<<Noop(subnet_short)>>)
            ELSE LET pos == get_open_proposal_for_subnet(
                                subnet_proposals, subnet, desired_version.version)
                 IN  IF pos # 0
                     THEN Ok(<<PendingProposal(subnet_short, subnet_proposals[pos].id)>>)
                     ELSE Ok(<<PlaceProposal(FALSE, to_string(subnet.principal),
                                             desired_version.version)>>)

\* check_subnet looking for an open proposal before it compares the versions
check_subnet_proposal_first(bake_status, subnet_proposals, stage, subnet_list, desired_versions, subnet_short) ==
    LET matching == {p \in DOMAIN desired_versions.subnets :
                        starts_with(to_string(p), subnet_short)}
    IN  IF matching = {}
        THEN Panic("should find the subnet")
        ELSE
        LET subnet_principal == Min(matching)
            desired_version == desired_versions.subnets[subnet_principal]
            subnet == subnet_list[position({k \in 1..Len(subnet_list) :
                                subnet_list[k].principal = subnet_principal})]
            pos == get_open_proposal_for_subnet(
                       subnet_proposals, subnet, desired_version.version)
        IN  IF pos # 0
            THEN Ok(<<PendingProposal(subnet_short, subnet_proposals[pos].id)>>)
            ELSE IF subnet.replica_version = desired_version.version
            THEN LET remaining ==
                        get_remaining_bake_time_for_subnet(
                            bake_status, subnet, as_secs_f64(stage.bake_time))
                 IN  IF remaining.kind # "Ok"
                     THEN remaining
                     ELSE IF remaining.actions # 0
                          THEN Ok(<<Baking(subnet_short,
                                           from_secs_f64(remaining.actions))>>)
                          ELSE Ok(<<Noop(subnet_short)>>)
            ELSE Ok(<<PlaceProposal(FALSE, to_string(subnet.principal),
                                    desired_version.version)>>)

\* one iteration of the loop over stage.subnets: the action pushed for
\* subnet_short, or the error or panic that ends the call
check_subnet(bake_status, subnet_proposals, stage, subnet_list, desired_versions, subnet_short) ==
    LET matching == {p \in DOMAIN desired_versions.subnets :
                        starts_with(to_string(p), subnet_short)}
    IN  IF matching = {}
        THEN Panic("should find the subnet")
        ELSE
        LET subnet_principal == Min(matching)
            desired_version == desired_versions.subnets[subnet_principal]
            subnet == subnet_list[position({k \in 1..Len(subnet_list) :
                                subnet_list[k].principal = subnet_principal})]
        IN  IF subnet.replica_version = desired_version.version
            THEN LET remaining ==
                        get_remaining_bake_time_for_subnet(
                            bake_status, subnet, as_secs_f64(stage.bake_time))
                 IN  IF remaining.kind # "Ok"
                     THEN remaining
                     ELSE IF remaining.actions # 0
                          THEN Ok(<<Baking(subnet_short,
                                           from_secs_f64(remaining.actions))>>)
                          ELSE Ok(<<Noop(subnet_short)>>)
            ELSE LET pos == get_open_proposal_for_subnet(
                                subnet_proposals, subnet, desired_version.version)
                 IN  IF pos # 0
                     THEN Ok(<<PendingProposal(subnet_short, subnet_proposals[pos].id)>>)
                     ELSE Ok(<<PlaceProposal(FALSE, to_string(subnet.principal),
                                             desired_version.version)>>)

\* the loop leaving out the Noop of a subnet that is done
RECURSIVE check_subnets_skipping_noop(_, _, _, _, _, _, _)
check_subnets_skipping_noop(bake_status, subnet_proposals, stage, subnet_list, desired_versions, i, stage_actions) ==
    IF i > Len(stage.subnets)
    THEN Ok(stage_actions)
    ELSE LET one == check_subnet(bake_status, subnet_proposals, stage, subnet_list,
                                 desired_versions, stage.subnets[i])
         IN  IF one.kind # "Ok"
             THEN one
             ELSE check_subnets_skipping_noop(
                      bake_status, subnet_proposals, stage, subnet_list,
                      desired_versions, i + 1,
                      IF \A n \in 1..Len(one.actions) : one.actions[n].type = "Noop"
                      THEN stage_actions
                      ELSE stage_actions \o one.actions)

\* the loop returning what it has collected when a subnet fails
RECURSIVE check_subnets_partial(_, _, _, _, _, _, _)
check_subnets_partial(bake_status, subnet_proposals, stage, subnet_list, desired_versions, i, stage_actions) ==
    IF i > Len(stage.subnets)
    THEN Ok(stage_actions)
    ELSE LET one == check_subnet(bake_status, subnet_proposals, stage, subnet_list,
                                 desired_versions, stage.subnets[i])
         IN  IF one.kind # "Ok"
             THEN [one EXCEPT !.actions = stage_actions]
             ELSE check_subnets_partial(bake_status, subnet_proposals, stage,
                                        subnet_list, desired_versions, i + 1,
                                        stage_actions \o one.actions)

\* the loop over stage.subnets from position i on, stage_actions collected so far
RECURSIVE check_subnets(_, _, _, _, _, _, _)
check_subnets(bake_status, subnet_proposals, stage, subnet_list, desired_versions, i, stage_actions) ==
    IF i > Len(stage.subnets)
    THEN Ok(stage_actions)
    ELSE LET one == check_subnet(bake_status, subnet_proposals, stage, subnet_list,
                                 desired_versions, stage.subnets[i])
         IN  IF one.kind # "Ok"
             THEN one
             ELSE check_subnets(bake_status, subnet_proposals, stage, subnet_list,
                                desired_versions, i + 1, stage_actions \o one.actions)

check_stage(bake_status, subnet_proposals, unassigned_proposals, stage, current_unassigned_version, subnet_list, desired_versions) ==
    IF stage.update_unassigned_nodes
    THEN check_unassigned_nodes(unassigned_proposals, current_unassigned_version,
                                desired_versions)
    ELSE check_subnets(bake_status, subnet_proposals, stage, subnet_list,
                       desired_versions, 1, <<>>)

-----------------------------------------------------------------------------
(* fn check_stages *)

\* only a stage without actions counts as complete
all_noop_none(stage_actions) == stage_actions = <<>>

all_noop(stage_actions) ==
    \A j \in 1..Len(stage_actions) : stage_actions[j].type = "Noop"

\* the loop holding a stage back only when the stage has something to do
RECURSIVE check_stages_from_wait_if_needed(_, _, _, _, _, _, _, _, _)
check_stages_from_wait_if_needed(bake_status, subnet_proposals, unassigned_proposals, idx, current_unassigned_version, subnet_list, today, desired_versions, i) ==
    IF i > Len(idx.rollout.stages)
    THEN Ok(<<>>)
    ELSE LET stage == idx.rollout.stages[i]
             start_of_release == date(desired_versions.release)
             stage_actions ==
                 check_stage(bake_status, subnet_proposals, unassigned_proposals,
                             stage, current_unassigned_version, subnet_list,
                             desired_versions)
         IN  IF stage_actions.kind = "Ok" /\ all_noop(stage_actions.actions)
             THEN check_stages_from_wait_if_needed(
                      bake_status, subnet_proposals, unassigned_proposals, idx,
                      current_unassigned_version, subnet_list, today,
                      desired_versions, i + 1)
             ELSE IF stage.wait_for_next_week /\ ~week_passed(start_of_release, today)
                  THEN Ok([j \in 1..Len(stage.subnets) |->
                              WaitForNextWeek(stage.subnets[j])])
                  ELSE stage_actions

\* check_stages_from without the return at the first stage that is not
\* complete: the actions of every incomplete stage are collected
RECURSIVE check_stages_from_collecting(_, _, _, _, _, _, _, _, _)
check_stages_from_collecting(bake_status, subnet_proposals, unassigned_proposals, idx, current_unassigned_version, subnet_list, today, desired_versions, i) ==
    IF i > Len(idx.rollout.stages)
    THEN Ok(<<>>)
    ELSE LET stage == idx.rollout.stages[i]
             stage_actions ==
                 IF stage.wait_for_next_week
                    /\ ~week_passed(date(desired_versions.release), today)
                 THEN Ok([j \in 1..Len(stage.subnets) |->
                             WaitForNextWeek(stage.subnets[j])])
                 ELSE check_stage(bake_status, subnet_proposals,
                                  unassigned_proposals, stage,
                                  current_unassigned_version, subnet_list,
                                  desired_versions)
             rest == check_stages_from_collecting(
                         bake_status, subnet_proposals, unassigned_proposals, idx,
                         current_unassigned_version, subnet_list, today,
                         desired_versions, i + 1)
         IN  IF stage_actions.kind # "Ok" THEN stage_actions
             ELSE IF rest.kind # "Ok" THEN rest
             ELSE IF all_noop(stage_actions.actions) THEN rest
             ELSE Ok(stage_actions.actions \o rest.actions)

\* the loop taking no notice of wait_for_next_week
RECURSIVE check_stages_from_no_wait(_, _, _, _, _, _, _, _, _)
check_stages_from_no_wait(bake_status, subnet_proposals, unassigned_proposals, idx, current_unassigned_version, subnet_list, today, desired_versions, i) ==
    IF i > Len(idx.rollout.stages)
    THEN Ok(<<>>)
    ELSE LET stage_actions ==
                 check_stage(bake_status, subnet_proposals, unassigned_proposals,
                             idx.rollout.stages[i], current_unassigned_version,
                             subnet_list, desired_versions)
         IN  IF stage_actions.kind # "Ok"
             THEN stage_actions
             ELSE IF ~all_noop(stage_actions.actions)
                  THEN stage_actions
                  ELSE check_stages_from_no_wait(
                           bake_status, subnet_proposals, unassigned_proposals,
                           idx, current_unassigned_version, subnet_list, today,
                           desired_versions, i + 1)

\* the loop over index.rollout.stages from stage i on
RECURSIVE check_stages_from(_, _, _, _, _, _, _, _, _)
check_stages_from(bake_status, subnet_proposals, unassigned_proposals, idx, current_unassigned_version, subnet_list, today, desired_versions, i) ==
    IF i > Len(idx.rollout.stages)
    THEN Ok(<<>>)
    ELSE LET stage == idx.rollout.stages[i]
             start_of_release == date(desired_versions.release)
         IN  IF stage.wait_for_next_week /\ ~week_passed(start_of_release, today)
             THEN Ok([j \in 1..Len(stage.subnets) |->
                         WaitForNextWeek(stage.subnets[j])])
             ELSE LET stage_actions ==
                          check_stage(bake_status, subnet_proposals,
                                      unassigned_proposals, stage,
                                      current_unassigned_version, subnet_list,
                                      desired_versions)
                  IN  IF stage_actions.kind # "Ok"
                      THEN stage_actions
                      ELSE IF ~all_noop(stage_actions.actions)
                           THEN stage_actions
                           ELSE check_stages_from(
                                    bake_status, subnet_proposals,
                                    unassigned_proposals, idx,
                                    current_unassigned_version, subnet_list,
                                    today, desired_versions, i + 1)

\* check_stages counting the unassigned nodes' version among the releases in use
check_stages_counting_unassigned(bake_status, subnet_proposals, unassigned_proposals, idx, current_unassigned_version, subnet_list, today) ==
    LET with_unassigned ==
            desired_rollout_release_version(
                Append(subnet_list, [principal |-> 4,
                                     replica_version |-> current_unassigned_version]),
                idx.releases)
        desired_versions == desired_rollout_release_version(subnet_list, idx.releases)
    IN  IF with_unassigned.panic # "none"
        THEN Panic(with_unassigned.panic)
        ELSE check_stages_from(bake_status, subnet_proposals, unassigned_proposals,
                               idx, current_unassigned_version, subnet_list, today,
                               desired_versions, 1)

check_stages(bake_status, subnet_proposals, unassigned_proposals, idx, current_unassigned_version, subnet_list, today) ==
    LET desired_versions == desired_rollout_release_version(subnet_list, idx.releases)
    IN  IF desired_versions.panic # "none"
        THEN Panic(desired_versions.panic)
        ELSE check_stages_from(bake_status, subnet_proposals, unassigned_proposals,
                               idx, current_unassigned_version, subnet_list, today,
                               desired_versions, 1)

-----------------------------------------------------------------------------
(* The plan, the release catalog and the fleet *)

Version(version, pinned) == [version |-> version, subnets |-> pinned]

Stage(stage_subnets, bake_time, wait_for_next_week, update_unassigned_nodes) ==
    [subnets |-> stage_subnets, bake_time |-> bake_time,
     wait_for_next_week |-> wait_for_next_week,
     update_unassigned_nodes |-> update_unassigned_nodes]

\* releases, newest first; C.feature is pinned to the subnet of principal 2
Releases ==
    << [rc_name |-> "rcC",
        versions |-> <<Version("C.default", <<>>),
                       Version("C.feature", << <<2, 2, 2, 2, 2>> >>)>>],
       [rc_name |-> "rcB", versions |-> <<Version("B.default", <<>>)>>],
       [rc_name |-> "rcA", versions |-> <<Version("A.default", <<>>)>>] >>

VersionIds == {"A.default", "B.default", "C.default", "C.feature"}

\* one subnet, then the unassigned nodes, then two subnets after the weekend
Stages ==
    << Stage(<< <<1, 1, 1, 1, 1, 1>> >>, 1, FALSE, FALSE),
       Stage(<<>>, 0, FALSE, TRUE),
       Stage(<< <<2, 2, 2, 2, 2>>, <<1, 1, 1, 1, 1, 2>> >>, 1, TRUE, FALSE) >>

Indexes ==
    {[rollout |-> [pause |-> FALSE, skip_days |-> {}, stages |-> Stages],
      releases |-> Releases]}

\* the principals of the fleet, and one that is in no snapshot
Fleet == {1, 2, 3}
Principals == Fleet \cup {4}

Subnet(principal, replica_version) ==
    [principal |-> principal, replica_version |-> replica_version]

\* the registry lists the subnets in an order of its own
SubnetList(versions) ==
    <<Subnet(3, versions[3]), Subnet(1, versions[1]), Subnet(2, versions[2])>>

InitialFleets ==
    { SubnetList([p \in Fleet |-> "B.default"]),
      SubnetList((1 :> "B.default") @@ (2 :> "B.default") @@ (3 :> "A.default")) }

\* Principal::from_str: the principal of a text
from_str(text) == CHOOSE p \in Principals : to_string(p) = text

\* the day of the first snapshot, a Sunday
FirstDay == 20

\* today.weekday(), Monday being 0
weekday(today) == today % 7

\* the gate without the pause, and without the skip days
should_proceed_unpaused(idx, today) == weekday(today) \notin idx.rollout.skip_days
should_proceed_any_day(idx, today) == ~idx.rollout.pause

\* the gate of the driver: the rollout is not paused and today is no skip day
should_proceed(idx, today) ==
    /\ ~idx.rollout.pause
    /\ weekday(today) \notin idx.rollout.skip_days

\* the driver: the empty action list when the gate is closed, check_stages
\* on the snapshot otherwise
calculate_progress(bake_status, subnet_proposals, unassigned_proposals, idx, current_unassigned_version, subnet_list, today) ==
    IF ~should_proceed(idx, today)
    THEN Ok(<<>>)
    ELSE check_stages(bake_status, subnet_proposals, unassigned_proposals, idx,
                      current_unassigned_version, subnet_list, today)

\* the engine's answer for a snapshot
Tick(bake_status, subnet_proposals, unassigned_proposals, idx, current_unassigned_version, subnet_list, today) ==
    calculate_progress(bake_status, subnet_proposals, unassigned_proposals, idx,
                       current_unassigned_version, subnet_list, today)

Init ==
    /\ index \in Indexes
    /\ subnets \in InitialFleets
    /\ last_bake_status \in {<<>>, [p \in Fleet |-> NanosQ]}
    /\ subnet_update_proposals = <<>>
    /\ unassigned_node_update_proposals = <<>>
    /\ unassigned_version = "B.default"
    /\ now = FirstDay
    /\ foreign = FALSE
    /\ result = Tick(last_bake_status, subnet_update_proposals,
                     unassigned_node_update_proposals, index, unassigned_version,
                     subnets, now)

\* every step of the controller ends with a call of check_stages on the
\* snapshot it has just fetched
Ticked ==
    result' = Tick(last_bake_status', subnet_update_proposals',
                   unassigned_node_update_proposals', index', unassigned_version',
                   subnets', now')

NextId == Len(subnet_update_proposals) + Len(unassigned_node_update_proposals) + 1

SubnetProposal(id, subnet_id, version, executed) ==
    [id |-> id, executed |-> executed, subnet_id |-> subnet_id,
     replica_version_id |-> version]

UnassignedProposal(id, version, executed) ==
    [id |-> id, executed |-> executed, replica_version |-> version]

\* the proposals the caller submits for the PlaceProposal actions of a result
RECURSIVE Submitted(_, _, _)
Submitted(actions, id, lists) ==
    IF actions = <<>>
    THEN lists
    ELSE LET a == Head(actions)
         IN  IF a.type # "PlaceProposal"
             THEN Submitted(Tail(actions), id, lists)
             ELSE IF a.is_unassigned
                  THEN Submitted(Tail(actions), id + 1,
                         [lists EXCEPT !.unassigned =
                             Append(@, UnassignedProposal(id, a.version, FALSE))])
                  ELSE Submitted(Tail(actions), id + 1,
                         [lists EXCEPT !.subnet =
                             Append(@, SubnetProposal(id, from_str(a.subnet_principal),
                                                      a.version, FALSE))])

\* The caller acts on the PlaceProposal actions and refreshes the proposal lists.
ProposalsSubmitted ==
    LET lists == Submitted(result.actions, NextId,
                           [subnet |-> subnet_update_proposals,
                            unassigned |-> unassigned_node_update_proposals])
    IN  /\ result.kind = "Ok"
        /\ \E j \in 1..Len(result.actions) : result.actions[j].type = "PlaceProposal"
        /\ Len(lists.subnet) <= MaxProposals
        /\ Len(lists.unassigned) <= MaxProposals
        /\ subnet_update_proposals' = lists.subnet
        /\ unassigned_node_update_proposals' = lists.unassigned
        /\ UNCHANGED <<index, subnets, last_bake_status, unassigned_version, now, foreign>>

\* ... and check_stages runs on the refreshed lists.
SubmitProposals == ProposalsSubmitted /\ Ticked

SetVersion(subnet_list, principal, version) ==
    [i \in 1..Len(subnet_list) |->
        IF subnet_list[i].principal = principal
        THEN Subnet(principal, version) ELSE subnet_list[i]]

Without(bake_status, principal) ==
    [p \in DOMAIN bake_status \ {principal} |-> bake_status[p]]

\* Governance executes an open subnet proposal: the subnet runs the version
\* and its bake sample starts again.
ExecuteSubnetProposal(i) ==
    LET p == subnet_update_proposals[i]
    IN  /\ ~p.executed
        /\ p.subnet_id \in Fleet
        /\ subnet_update_proposals' =
              [subnet_update_proposals EXCEPT ![i].executed = TRUE]
        /\ subnets' = SetVersion(subnets, p.subnet_id, p.replica_version_id)
        /\ last_bake_status' = Without(last_bake_status, p.subnet_id)
        /\ UNCHANGED <<index, unassigned_node_update_proposals, unassigned_version,
                       now, foreign>>
        /\ Ticked

\* Governance executes an open unassigned-nodes proposal.
UnassignedProposalExecuted(i) ==
    LET p == unassigned_node_update_proposals[i]
    IN  /\ ~p.executed
        /\ unassigned_node_update_proposals' =
              [unassigned_node_update_proposals EXCEPT ![i].executed = TRUE]
        /\ unassigned_version' =
              IF p.replica_version = "None" THEN unassigned_version
              ELSE p.replica_version
        /\ UNCHANGED <<index, subnets, last_bake_status, subnet_update_proposals,
                       now, foreign>>

\* ... and check_stages runs on the new snapshot.
ExecuteUnassignedProposal(i) == UnassignedProposalExecuted(i) /\ Ticked

\* Time passes: every bake sample grows, and the subnets that had none get
\* their first one.
BakeSampled ==
    /\ \E p \in Fleet : IF p \in DOMAIN last_bake_status
                        THEN last_bake_status[p] < MaxBake ELSE TRUE
    /\ last_bake_status' =
          [p \in Fleet |->
              IF p \in DOMAIN last_bake_status
              THEN IF last_bake_status[p] < MaxBake
                   THEN last_bake_status[p] + 1 ELSE MaxBake
              ELSE 0]
    /\ UNCHANGED <<index, subnets, subnet_update_proposals,
                   unassigned_node_update_proposals, unassigned_version, now, foreign>>

\* ... and check_stages runs on the new samples.
BakeSample == BakeSampled /\ Ticked

\* The date advances.
DayPassed ==
    /\ now < MaxDay
    /\ now' = now + 1
    /\ UNCHANGED <<index, subnets, last_bake_status, subnet_update_proposals,
                   unassigned_node_update_proposals, unassigned_version, foreign>>

\* ... and check_stages runs on the new date.
NextDay == DayPassed /\ Ticked

\* Someone else's subnet-update proposal shows up in the list: for any
\* principal (also one that is not in the fleet), any version, open or executed.
ForeignSubnetProposal(principal, version, executed) ==
    /\ ~foreign
    /\ Len(subnet_update_proposals) < MaxProposals
    /\ foreign' = TRUE
    /\ subnet_update_proposals' =
          Append(subnet_update_proposals,
                 SubnetProposal(NextId, principal, version, executed))
    /\ UNCHANGED <<index, subnets, last_bake_status,
                   unassigned_node_update_proposals, unassigned_version, now>>
    /\ Ticked

\* Someone else's unassigned-nodes proposal shows up, with or without a version.
ForeignUnassignedProposal(version, executed) ==
    /\ ~foreign
    /\ Len(unassigned_node_update_proposals) < MaxProposals
    /\ foreign' = TRUE
    /\ unassigned_node_update_proposals' =
          Append(unassigned_node_update_proposals,
                 UnassignedProposal(NextId, version, executed))
    /\ UNCHANGED <<index, subnets, last_bake_status, subnet_update_proposals,
                   unassigned_version, now>>
    /\ Ticked

\* The registry shows a subnet on a version the rollout did not ask for.
RegistryVersion(principal, version) ==
    /\ ~foreign
    /\ foreign' = TRUE
    /\ subnets' = SetVersion(subnets, principal, version)
    /\ last_bake_status' = Without(last_bake_status, principal)
    /\ UNCHANGED <<index, subnet_update_proposals,
                   unassigned_node_update_proposals, unassigned_version, now>>
    /\ Ticked

\* The registry shows the unassigned nodes on another version.
RegistryUnassignedVersion(version) ==
    /\ ~foreign
    /\ foreign' = TRUE
    /\ unassigned_version # version
    /\ unassigned_version' = version
    /\ UNCHANGED <<index, subnets, last_bake_status, subnet_update_proposals,
                   unassigned_node_update_proposals, now>>
    /\ Ticked

Next ==
    \/ SubmitProposals
    \/ \E i \in 1..Len(subnet_update_proposals) : ExecuteSubnetProposal(i)
    \/ \E i \in 1..Len(unassigned_node_update_proposals) : ExecuteUnassignedProposal(i)
    \/ BakeSample
    \/ NextDay
    \/ \E principal \in {1, 2, 4}, version \in {"C.default", "C.feature"},
          executed \in BOOLEAN :
          ForeignSubnetProposal(principal, version, executed)
    \/ \E version \in {"C.default", "None"}, executed \in BOOLEAN :
          ForeignUnassignedProposal(version, executed)
    \/ \E principal \in {2, 3}, version \in {"A.default", "C.default", "X.unknown"} :
          RegistryVersion(principal, version)
    \/ \E version \in {"A.default", "C.default"} : RegistryUnassignedVersion(version)

Spec == Init /\ [][Next]_vars

-----------------------------------------------------------------------------
(* The engine over other plans, catalogs, fleets and dates: the snapshot of *)
(* the first call is any of them, on a day on which the releases the fleet  *)
(* runs have started, and the rollout goes on from there with no proposals  *)
(* and no version changes but its own.                                      *)

Index(pause, skip_days, stages, releases) ==
    [rollout |-> [pause |-> pause, skip_days |-> skip_days, stages |-> stages],
     releases |-> releases]

\* a catalog of four releases; rcM starts on a Monday
ReleasesWithMonday ==
    << Releases[1],
       [rc_name |-> "rcM", versions |-> <<Version("M.default", <<>>)>>],
       Releases[2], Releases[3] >>

\* a prefix that two subnets of the fleet start with
AmbiguousStages ==
    << Stage(<< <<1, 1, 1, 1, 1>> >>, 1, FALSE, FALSE),
       Stage(<<>>, 0, FALSE, TRUE) >>

\* a prefix, in the second stage, that no subnet of the fleet starts with
UnknownStages ==
    << Stage(<< <<1, 1, 1, 1, 1, 1>> >>, 1, FALSE, FALSE),
       Stage(<< <<3, 3, 3, 3, 3>>, <<2, 2, 2, 2, 2>> >>, 1, FALSE, FALSE) >>

\* two prefixes of one stage that the same subnet starts with
DuplicateStages ==
    << Stage(<< <<2, 2, 2, 2, 2>>, <<2, 2, 2, 2, 2, 2>>, <<1, 1, 1, 1, 1, 2>> >>,
             1, FALSE, FALSE),
       Stage(<<>>, 0, FALSE, TRUE) >>

\* a prefix of two characters, the start of one subnet's id only
ShortStages ==
    << Stage(<< <<2, 2>> >>, 1, FALSE, FALSE),
       Stage(<<>>, 0, FALSE, TRUE) >>

\* the unassigned-nodes stage held back until the next week
WaitUnassignedStages ==
    << Stage(<< <<1, 1, 1, 1, 1, 1>> >>, 1, FALSE, FALSE),
       Stage(<<>>, 0, TRUE, TRUE),
       Stage(<< <<2, 2, 2, 2, 2>>, <<1, 1, 1, 1, 1, 2>> >>, 1, FALSE, FALSE) >>

\* a catalog whose newest release has two feature builds that both pin the
\* subnet of principal 2
ReleasesMultiPin ==
    << [rc_name |-> "rcC",
        versions |-> <<Version("C.default", <<>>),
                       Version("C.feature", << <<2, 2, 2, 2, 2>> >>),
                       Version("C.second", << <<1, 1, 1, 1, 1, 1>>, <<2, 2, 2>> >>)>>],
       Releases[2], Releases[3] >>

Sunday == 6

PlanIndexes ==
    { Index(FALSE, {}, Stages, Releases),
      Index(FALSE, {}, Stages, ReleasesWithMonday),
      Index(TRUE, {}, Stages, Releases),
      Index(FALSE, {Sunday}, Stages, Releases),
      Index(FALSE, {}, AmbiguousStages, Releases),
      Index(FALSE, {}, UnknownStages, Releases),
      Index(FALSE, {}, DuplicateStages, Releases),
      Index(FALSE, {}, ShortStages, Releases),
      Index(FALSE, {}, Stages, ReleasesMultiPin),
      Index(FALSE, {}, WaitUnassignedStages, Releases),
      Index(FALSE, {}, Stages, <<>>) }

\* fleets before, between and after rollouts
PlanFleets ==
    InitialFleets \cup
    { SubnetList([p \in Fleet |-> "A.default"]),
      SubnetList((1 :> "C.default") @@ (2 :> "C.feature") @@ (3 :> "C.default")) }

PlanInit ==
    /\ index \in PlanIndexes
    /\ subnets \in PlanFleets
    /\ last_bake_status \in {<<>>, [p \in Fleet |-> NanosQ]}
    /\ subnet_update_proposals = <<>>
    /\ unassigned_node_update_proposals = <<>>
    /\ unassigned_version \in {"B.default", "C.default"}
    /\ now \in 0..MaxDay
    /\ \A i \in 1..Len(subnets) :
          release_position(subnets[i], index.releases) # 0
             => now >= date(index.releases[release_position(subnets[i],
                                                            index.releases)])
    /\ foreign = TRUE
    /\ result = Tick(last_bake_status, subnet_update_proposals,
                     unassigned_node_update_proposals, index, unassigned_version,
                     subnets, now)

PlanNext ==
    \/ SubmitProposals
    \/ \E i \in 1..Len(subnet_update_proposals) : ExecuteSubnetProposal(i)
    \/ \E i \in 1..Len(unassigned_node_update_proposals) : ExecuteUnassignedProposal(i)
    \/ BakeSample
    \/ NextDay

PlanSpec == PlanInit /\ [][PlanNext]_vars

-----------------------------------------------------------------------------
(* get_remaining_bake_time_for_subnet on samples and bake requirements of   *)
(* either sign, as should_return_subnet_baking_time calls it                *)

\* the f64 seconds of the samples and of the bake requirements
BakeValues == (0 - MaxBake * NanosQ)..(MaxBake * NanosQ)

\* the subnet of the call
BakeSubnet(subnet_list) == subnet_list[1]

BakeInit ==
    /\ index \in Indexes
    /\ subnets \in InitialFleets
    /\ last_bake_status \in
          {<<>>} \cup {[p \in Fleet |-> bake] : bake \in BakeValues}
    /\ subnet_update_proposals = <<>>
    /\ unassigned_node_update_proposals = <<>>
    /\ unassigned_version = "B.default"
    /\ now = FirstDay
    /\ foreign = FALSE
    /\ result = get_remaining_bake_time_for_subnet(last_bake_status,
                                                   BakeSubnet(subnets), 0)

\* get_remaining_bake_time_for_subnet is called for a bake requirement
RemainingBakeTime(stage_bake_time) ==
    /\ result' = get_remaining_bake_time_for_subnet(last_bake_status,
                                                    BakeSubnet(subnets),
                                                    stage_bake_time)
    /\ UNCHANGED <<index, subnets, last_bake_status, subnet_update_proposals,
                   unassigned_node_update_proposals, unassigned_version, now,
                   foreign>>

BakeNext == \E stage_bake_time \in BakeValues : RemainingBakeTime(stage_bake_time)

BakeSpec == BakeInit /\ [][BakeNext]_vars

-----------------------------------------------------------------------------
(* The closed loop of test_use_case_1 .. test_use_case_9: a fixed plan, a   *)
(* catalog [new, old], the fleet and the unassigned nodes on the old        *)
(* release.  The placed proposals are submitted, every open proposal is     *)
(* executed in the end, the samples grow and the date advances.             *)

\* the catalog [new, old]
ReleasesNewOld == <<Releases[1], Releases[2]>>

\* Governance executes an open subnet proposal: the subnet runs the version
\* and its bake sample is 0.
SubnetProposalExecutedBaking(i) ==
    LET p == subnet_update_proposals[i]
    IN  /\ ~p.executed
        /\ p.subnet_id \in Fleet
        /\ subnet_update_proposals' =
              [subnet_update_proposals EXCEPT ![i].executed = TRUE]
        /\ subnets' = SetVersion(subnets, p.subnet_id, p.replica_version_id)
        /\ last_bake_status' =
              [q \in DOMAIN last_bake_status \cup {p.subnet_id} |->
                  IF q = p.subnet_id THEN 0 ELSE last_bake_status[q]]
        /\ UNCHANGED <<index, unassigned_node_update_proposals, unassigned_version,
                       now, foreign>>

\* ... and check_stages runs on the new snapshot.
ExecuteSubnetProposalBaking(i) == SubnetProposalExecutedBaking(i) /\ Ticked

ExecuteSomeSubnetProposal ==
    \E i \in 1..Len(subnet_update_proposals) : ExecuteSubnetProposalBaking(i)

ExecuteSomeUnassignedProposal ==
    \E i \in 1..Len(unassigned_node_update_proposals) : ExecuteUnassignedProposal(i)

\* some open proposal of either list is executed
SomeSubnetProposalExecuted ==
    \E i \in 1..Len(subnet_update_proposals) : SubnetProposalExecutedBaking(i)
SomeUnassignedProposalExecuted ==
    \E i \in 1..Len(unassigned_node_update_proposals) : UnassignedProposalExecuted(i)

LiveInit ==
    /\ index \in {Index(FALSE, {}, Stages, ReleasesNewOld),
                  Index(FALSE, {}, DuplicateStages, ReleasesNewOld)}
    /\ subnets = SubnetList([p \in Fleet |-> "B.default"])
    /\ last_bake_status \in {<<>>, [p \in Fleet |-> NanosQ]}
    /\ subnet_update_proposals = <<>>
    /\ unassigned_node_update_proposals = <<>>
    /\ unassigned_version = "B.default"
    /\ now \in date(ReleasesNewOld[1])..MaxDay
    /\ foreign = TRUE
    /\ result = Tick(last_bake_status, subnet_update_proposals,
                     unassigned_node_update_proposals, index, unassigned_version,
                     subnets, now)

LiveNext ==
    \/ SubmitProposals
    \/ ExecuteSomeSubnetProposal
    \/ ExecuteSomeUnassignedProposal
    \/ BakeSample
    \/ NextDay

\* the snapshot check_stages is called on
snapshot == <<index, subnets, last_bake_status, subnet_update_proposals,
              unassigned_node_update_proposals, unassigned_version, now, foreign>>

\* what is fair is the change of the snapshot; the call that follows it in the
\* same step always returns
LiveSpec ==
    /\ LiveInit
    /\ [][LiveNext]_vars
    /\ WF_snapshot(ProposalsSubmitted)
    /\ WF_snapshot(SomeSubnetProposalExecuted)
    /\ WF_snapshot(SomeUnassignedProposalExecuted)
    /\ WF_snapshot(BakeSampled)
    /\ WF_snapshot(DayPassed)

-----------------------------------------------------------------------------
(* A fleet that is one release behind the newest but one: the rollout of    *)
(* the release in between ends and the rollout of the newest one begins.    *)

\* the plan with the first stage held back until the next week
WaitFirstStages ==
    << Stage(<< <<1, 1, 1, 1, 1, 1>> >>, 1, TRUE, FALSE),
       Stage(<<>>, 0, FALSE, TRUE),
       Stage(<< <<2, 2, 2, 2, 2>>, <<1, 1, 1, 1, 1, 2>> >>, 1, FALSE, FALSE) >>

HopInit ==
    /\ index \in {Index(FALSE, {}, Stages, Releases),
                  Index(FALSE, {}, WaitFirstStages, Releases)}
    /\ subnets \in {SubnetList([p \in Fleet |-> "A.default"]),
                    SubnetList((1 :> "B.default") @@ (2 :> "B.default") @@
                               (3 :> "A.default"))}
    /\ last_bake_status = [p \in Fleet |-> NanosQ]
    /\ subnet_update_proposals = <<>>
    /\ unassigned_node_update_proposals = <<>>
    /\ unassigned_version = "B.default"
    /\ now = FirstDay
    /\ foreign = FALSE
    /\ result = Tick(last_bake_status, subnet_update_proposals,
                     unassigned_node_update_proposals, index, unassigned_version,
                     subnets, now)

\* the rollout's own steps, and a proposal someone else has placed
HopNext ==
    \/ SubmitProposals
    \/ \E i \in 1..Len(subnet_update_proposals) : ExecuteSubnetProposal(i)
    \/ \E i \in 1..Len(unassigned_node_update_proposals) : ExecuteUnassignedProposal(i)
    \/ BakeSample
    \/ NextDay
    \/ \E principal \in {1, 2}, executed \in BOOLEAN :
          ForeignSubnetProposal(principal, "C.default", executed)

HopSpec == HopInit /\ [][HopNext]_vars

-----------------------------------------------------------------------------
(* What the claims speak of, in terms of the snapshot *)

\* the snapshot of this call, and of the next one
Snapshot ==
    [index |-> index, subnets |-> subnets, last_bake_status |-> last_bake_status,
     subnet_update_proposals |-> subnet_update_proposals,
     unassigned_node_update_proposals |-> unassigned_node_update_proposals,
     unassigned_version |-> unassigned_version, now |-> now]
NextSnapshot ==
    [index |-> index', subnets |-> subnets', last_bake_status |-> last_bake_status',
     subnet_update_proposals |-> subnet_update_proposals',
     unassigned_node_update_proposals |-> unassigned_node_update_proposals',
     unassigned_version |-> unassigned_version', now |-> now']

DesiredIn(snap) == desired_rollout_release_version(snap.subnets, snap.index.releases)
Desired == DesiredIn(Snapshot)
Resolved == Desired.panic = "none"
NumStages == Len(index.rollout.stages)
StageAt(k) == index.rollout.stages[k]

\* the subnets of the fleet a prefix names, and the current version of one
Named(prefix) ==
    {subnets[i].principal : i \in {j \in 1..Len(subnets) :
                                      starts_with(to_string(subnets[j].principal), prefix)}}
CurrentVersion(principal) ==
    subnets[CHOOSE i \in 1..Len(subnets) : subnets[i].principal = principal].replica_version
DesiredVersion(principal) == Desired.subnets[principal].version

\* stage k is held back until the Monday after the start of the active release
WaitingIn(snap, k) ==
    /\ snap.index.rollout.stages[k].wait_for_next_week
    /\ ~week_passed(date(DesiredIn(snap).release), snap.now)
Waiting(k) == WaitingIn(Snapshot, k)

\* what stage k yields when the walk reaches it
StageResultIn(snap, k) ==
    LET stage == snap.index.rollout.stages[k]
    IN  IF WaitingIn(snap, k)
        THEN Ok([j \in 1..Len(stage.subnets) |-> WaitForNextWeek(stage.subnets[j])])
        ELSE check_stage(snap.last_bake_status, snap.subnet_update_proposals,
                         snap.unassigned_node_update_proposals, stage,
                         snap.unassigned_version, snap.subnets, DesiredIn(snap))
StageResult(k) == StageResultIn(Snapshot, k)

\* stage k is complete: it yields actions and all of them are Noop
CompleteIn(snap, k) ==
    /\ DesiredIn(snap).panic = "none"
    /\ ~WaitingIn(snap, k)
    /\ StageResultIn(snap, k).kind = "Ok"
    /\ all_noop(StageResultIn(snap, k).actions)
Complete(k) == CompleteIn(Snapshot, k)

\* the action concerns a subnet the stage names, or the unassigned nodes of
\* an unassigned-nodes stage
ActionOfStage(a, stage) ==
    IF stage.update_unassigned_nodes
    THEN IF a.type = "PlaceProposal"
         THEN a.is_unassigned
         ELSE a.subnet_short \in {UnassignedVersionLabel, UnassignedNodesLabel}
    ELSE IF a.type = "PlaceProposal"
         THEN /\ ~a.is_unassigned
              /\ \E i \in 1..Len(stage.subnets) :
                    starts_with(a.subnet_principal, stage.subnets[i])
         ELSE \E i \in 1..Len(stage.subnets) : stage.subnets[i] = a.subnet_short

Actions == {result.actions[j] : j \in 1..Len(result.actions)}

-----------------------------------------------------------------------------
(* C1: a non-empty result is the action list of one stage, the first one    *)
(* whose actions are not all Noop: every action in it concerns that stage   *)
(* and none concerns a later stage; when every stage yields only Noop       *)
(* actions the result is the empty list.                                    *)

C1_SingleAdvancingStage ==
    result.kind = "Ok" =>
        /\ result.actions # <<>> =>
              \E k \in 1..NumStages :
                 /\ \A j \in 1..(k - 1) : Complete(j)
                 /\ ~Complete(k)
                 /\ result = StageResult(k)
                 /\ ~all_noop(result.actions)
                 /\ \A a \in Actions :
                       /\ ActionOfStage(a, StageAt(k))
                       /\ \A j \in (k + 1)..NumStages : ~ActionOfStage(a, StageAt(j))
        /\ (\A k \in 1..NumStages : Complete(k)) => result.actions = <<>>

\* two PlaceProposal actions of the third stage while the first two are complete
C1_Witness ==
    /\ result.kind = "Ok"
    /\ Len(result.actions) = 2
    /\ \A a \in Actions : a.type = "PlaceProposal" /\ ActionOfStage(a, StageAt(3))
    /\ Complete(1) /\ Complete(2)

-----------------------------------------------------------------------------
(* C2: earlier stages are never overtaken.                                  *)

\* the sample of the subnet has reached the bake time of the stage
BakedInFull(principal, stage) ==
    /\ principal \in DOMAIN last_bake_status
    /\ last_bake_status[principal] >= as_secs_f64(stage.bake_time)

\* the sample of the subnet is at most half a nanosecond short of the bake
\* time of the stage, so that the remaining bake time is zero nanoseconds
BakedToTheNanosecond(principal, stage) ==
    /\ principal \in DOMAIN last_bake_status
    /\ 2 * (as_secs_f64(stage.bake_time) - last_bake_status[principal]) <= NanosQ

\* nothing is left to do for stage j; the bake is measured in full, or to
\* the nanosecond
Done(j, in_full) ==
    IF StageAt(j).update_unassigned_nodes
    THEN unassigned_version = Desired.unassigned_nodes.version
    ELSE \A i \in 1..Len(StageAt(j).subnets) :
            \A principal \in Named(StageAt(j).subnets[i]) :
               /\ CurrentVersion(principal) = DesiredVersion(principal)
               /\ IF in_full THEN BakedInFull(principal, StageAt(j))
                  ELSE BakedToTheNanosecond(principal, StageAt(j))

NotOvertaken(in_full) ==
    result.kind = "Ok" =>
        \A k \in 1..NumStages : \A a \in Actions :
            (a.type # "Noop" /\ ActionOfStage(a, StageAt(k)))
                => \A j \in 1..(k - 1) : Done(j, in_full)

\* C2 as stated: an action other than Noop for stage k is emitted only if
\* every subnet of every earlier subnet stage runs its desired version with
\* observed bake >= that stage's bake_time, and the unassigned nodes run the
\* desired version for every earlier unassigned-nodes stage.
C2_NeverOvertaken_AsStated == NotOvertaken(TRUE)

\* C2 as amended: the same, with the observed bake of every earlier subnet at
\* most half a nanosecond short of its stage's bake_time.
C2_NeverOvertaken == NotOvertaken(FALSE)

\* an action for the third stage while the subnet of the first stage is a
\* third of a nanosecond short of its bake time
C2_Witness ==
    /\ result.kind = "Ok"
    /\ \E a \in Actions : a.type # "Noop" /\ ActionOfStage(a, StageAt(3))
    /\ Done(1, FALSE) /\ ~Done(1, TRUE)
    /\ Done(2, FALSE)

-----------------------------------------------------------------------------
(* C3: idempotence.  When the caller submits one open proposal for every    *)
(* PlaceProposal of the result and nothing else changes, the next result    *)
(* holds no PlaceProposal for those targets; it holds a PendingProposal for *)
(* the same subnet (or "unassigned-version") with the id of the proposal    *)
(* that was added.                                                          *)

\* the ids of the proposals added for the target of PlaceProposal a
AddedIds(a) ==
    IF a.is_unassigned
    THEN {unassigned_node_update_proposals'[i].id :
             i \in {k \in (Len(unassigned_node_update_proposals) + 1)..
                          Len(unassigned_node_update_proposals') :
                       unassigned_node_update_proposals'[k].replica_version = a.version}}
    ELSE {subnet_update_proposals'[i].id :
             i \in {k \in (Len(subnet_update_proposals) + 1)..
                          Len(subnet_update_proposals') :
                       /\ to_string(subnet_update_proposals'[k].subnet_id)
                             = a.subnet_principal
                       /\ subnet_update_proposals'[k].replica_version_id = a.version}}

\* b is the PendingProposal that answers PlaceProposal a
PendingFor(a, b) ==
    /\ b.type = "PendingProposal"
    /\ IF a.is_unassigned
       THEN b.subnet_short = UnassignedVersionLabel
       ELSE starts_with(a.subnet_principal, b.subnet_short)
    /\ b.proposal_id \in AddedIds(a)

SamePlaceProposal(a, b) ==
    /\ b.type = "PlaceProposal"
    /\ b.is_unassigned = a.is_unassigned
    /\ b.subnet_principal = a.subnet_principal

C3_Idempotence ==
    [][SubmitProposals =>
          /\ result'.kind = "Ok"
          /\ \A a \in Actions :
                a.type = "PlaceProposal" =>
                   /\ AddedIds(a) # {}
                   /\ \A j \in 1..Len(result'.actions) :
                         ~SamePlaceProposal(a, result'.actions[j])
                   /\ \E j \in 1..Len(result'.actions) :
                         PendingFor(a, result'.actions[j])]_vars

\* every proposal comes from the rollout, and the result holds two
\* PendingProposal actions with the ids of two open proposals
C3_Witness ==
    /\ ~foreign
    /\ result.kind = "Ok"
    /\ Len(result.actions) = 2
    /\ \A a \in Actions :
          /\ a.type = "PendingProposal"
          /\ \E i \in 1..Len(subnet_update_proposals) :
                /\ subnet_update_proposals[i].id = a.proposal_id
                /\ ~subnet_update_proposals[i].executed

\* the same for the unassigned nodes
C3_WitnessUnassigned ==
    /\ ~foreign
    /\ unassigned_node_update_proposals # <<>>
    /\ result = Ok(<<PendingProposal(UnassignedVersionLabel,
                                     unassigned_node_update_proposals[1].id)>>)

-----------------------------------------------------------------------------
(* C4: no regressions.                                                      *)

\* a proposal list only progresses: the proposals it held stay, and change
\* only from open to executed
ProposalsProgress(before, after) ==
    /\ Len(after) >= Len(before)
    /\ \A i \in 1..Len(before) :
          /\ [after[i] EXCEPT !.executed = FALSE] = [before[i] EXCEPT !.executed = FALSE]
          /\ before[i].executed => after[i].executed

\* the inputs of the next call only progress: a version changes only to its
\* target, a proposal only from open to executed, the bake sample of a subnet
\* that keeps its version does not shrink, and the date does not go back
Progress ==
    /\ index' = index
    /\ Len(subnets') = Len(subnets)
    /\ \A i \in 1..Len(subnets) :
          /\ subnets'[i].principal = subnets[i].principal
          /\ \/ subnets'[i].replica_version = subnets[i].replica_version
             \/ /\ Resolved
                /\ subnets'[i].replica_version = DesiredVersion(subnets[i].principal)
          /\ (/\ subnets'[i].replica_version = subnets[i].replica_version
              /\ subnets[i].principal \in DOMAIN last_bake_status)
                => /\ subnets[i].principal \in DOMAIN last_bake_status'
                   /\ last_bake_status'[subnets[i].principal]
                         >= last_bake_status[subnets[i].principal]
    /\ \/ unassigned_version' = unassigned_version
       \/ /\ Resolved
          /\ unassigned_version' = Desired.unassigned_nodes.version
    /\ ProposalsProgress(subnet_update_proposals, subnet_update_proposals')
    /\ ProposalsProgress(unassigned_node_update_proposals,
                         unassigned_node_update_proposals')
    /\ now' >= now

\* C4 as stated: a stage that is complete in one call is complete in the next
\* call whenever the inputs only progress.
C4_NoRegressions_AsStated ==
    [][Progress => \A k \in 1..NumStages :
                      Complete(k) => CompleteIn(NextSnapshot, k)]_vars

\* C4 as amended: a stage that is complete in one call is complete in the next
\* call whenever the inputs only progress and the active release is the same
\* release in both calls.
C4_NoRegressions ==
    [][(/\ Progress
        /\ Resolved
        /\ DesiredIn(NextSnapshot).panic = "none"
        /\ DesiredIn(NextSnapshot).release = Desired.release)
          => \A k \in 1..NumStages :
                Complete(k) => CompleteIn(NextSnapshot, k)]_vars

\* the rollout alone has brought the fleet to a state in which the first two
\* stages are complete, a proposal is executed and the date has advanced
C4_Witness ==
    /\ ~foreign
    /\ Complete(1) /\ Complete(2)
    /\ now > FirstDay
    /\ \E i \in 1..Len(subnet_update_proposals) : subnet_update_proposals[i].executed
    /\ \E i \in 1..Len(unassigned_node_update_proposals) :
          unassigned_node_update_proposals[i].executed

-----------------------------------------------------------------------------
(* C5: determinism.  check_stages reads nothing but its arguments: the      *)
(* result is the value of the operator check_stages on the snapshot, so two *)
(* calls on equal snapshots cannot be told apart in any behaviour.          *)

-----------------------------------------------------------------------------
(* C6: release cardinality.                                                 *)

\* the current version of every subnet is a version of the catalog
VersionsKnown ==
    \A i \in 1..Len(subnets) :
       \E k \in 1..Len(index.releases) : \E v \in 1..Len(index.releases[k].versions) :
          index.releases[k].versions[v].version = subnets[i].replica_version

\* the releases of the catalog some subnet runs a version of
ReleasesInUse ==
    {k \in 1..Len(index.releases) :
        \E i \in 1..Len(subnets) : \E v \in 1..Len(index.releases[k].versions) :
           index.releases[k].versions[v].version = subnets[i].replica_version}

\* C6: whenever the current versions of the subnets belong to more than two
\* distinct releases of the catalog, check_stages fails with "more than two
\* releases active" and yields no actions; with one or two distinct releases
\* it does not fail for this reason.
C6_ReleaseCardinality ==
    VersionsKnown =>
        /\ Cardinality(ReleasesInUse) > 2 =>
              /\ result.kind \notin {"Ok"}
              /\ result.error = "more than two releases active"
              /\ result.actions = <<>>
        /\ Cardinality(ReleasesInUse) \in {1, 2} =>
              result.error # "more than two releases active"

\* the three subnets on three releases, and the call has failed
C6_Witness ==
    /\ VersionsKnown
    /\ Cardinality(ReleasesInUse) = 3
    /\ result.kind = "Panic"

\* the fleet on two releases, and the call has yielded actions
C6_WitnessTwoReleases ==
    /\ VersionsKnown
    /\ Cardinality(ReleasesInUse) = 2
    /\ result.kind = "Ok" /\ result.actions # <<>>

-----------------------------------------------------------------------------
(* C7: feature-build pinning.                                               *)

\* the versions of the active release whose pinned-subnet list holds a prefix
\* of the subnet's id
PinnedTo(principal) ==
    {k \in 1..Len(Desired.release.versions) :
        \E j \in 1..Len(Desired.release.versions[k].subnets) :
           starts_with(to_string(principal), Desired.release.versions[k].subnets[j])}

\* the pinned version of the active release, its default version otherwise
PinnedOrDefault(principal) ==
    IF PinnedTo(principal) = {}
    THEN Desired.release.versions[1].version
    ELSE Desired.release.versions[CHOOSE k \in PinnedTo(principal) : TRUE].version

\* C7: the desired version of a subnet is the version of the active release
\* that pins it, and the default version (position 0) of the active release
\* when no version pins it; every PlaceProposal emitted for a subnet carries
\* exactly that version.
C7_FeatureBuildPinning ==
    Resolved =>
        /\ \A principal \in Fleet :
              /\ Cardinality(PinnedTo(principal)) <= 1
              /\ DesiredVersion(principal) = PinnedOrDefault(principal)
        /\ \A a \in Actions :
              (a.type = "PlaceProposal" /\ ~a.is_unassigned)
                 => a.version = PinnedOrDefault(from_str(a.subnet_principal))

\* one stage, two PlaceProposals: the feature build for the pinned subnet and
\* the default build of the same release for the other one
C7_Witness ==
    /\ result.kind = "Ok"
    /\ Len(result.actions) = 2
    /\ \E a, b \in Actions :
          /\ a.type = "PlaceProposal" /\ b.type = "PlaceProposal"
          /\ PinnedTo(from_str(a.subnet_principal)) # {}
          /\ PinnedTo(from_str(b.subnet_principal)) = {}
          /\ a.version = "C.feature" /\ b.version = "C.default"

-----------------------------------------------------------------------------
(* C8, C9: the action of check_stage for one subnet of a subnet stage.      *)

\* the subnet stages check_stage is called on in this call: the stages up to
\* the first one that is not complete, less those held back for next week
Evaluated ==
    {k \in 1..NumStages :
        /\ Resolved
        /\ ~StageAt(k).update_unassigned_nodes
        /\ ~Waiting(k)
        /\ \A j \in 1..(k - 1) : Complete(j)}

\* the subnet the j-th prefix of stage k names
SubnetOf(k, j) == CHOOSE principal \in Named(StageAt(k).subnets[j]) : TRUE

\* the open proposals for the subnet and its desired version, by position
OpenFor(principal) ==
    {i \in 1..Len(subnet_update_proposals) :
        /\ subnet_update_proposals[i].subnet_id = principal
        /\ subnet_update_proposals[i].replica_version_id = DesiredVersion(principal)
        /\ ~subnet_update_proposals[i].executed}

\* any proposal, open or executed, names the subnet
ProposalsFor(principal) ==
    {i \in 1..Len(subnet_update_proposals) :
        subnet_update_proposals[i].subnet_id = principal}

\* C8: for a subnet of the evaluated subnet stage that does not run its
\* desired version, the stage's action for it is PendingProposal{prefix, id}
\* with the id of an open proposal for that subnet and that version when
\* there is one (the first of them), and PlaceProposal{false, the subnet's
\* full id, the desired version} otherwise; it is never Noop or Baking.
C8_PendingOrPlace ==
    \A k \in Evaluated : \A j \in 1..Len(StageAt(k).subnets) :
        LET prefix == StageAt(k).subnets[j]
            principal == SubnetOf(k, j)
        IN  (/\ StageResult(k).kind = "Ok"
             /\ CurrentVersion(principal) # DesiredVersion(principal))
              => /\ Len(StageResult(k).actions) = Len(StageAt(k).subnets)
                 /\ StageResult(k).actions[j].type \notin {"Noop", "Baking"}
                 /\ StageResult(k).actions[j] =
                       IF OpenFor(principal) # {}
                       THEN PendingProposal(prefix,
                               subnet_update_proposals[Min(OpenFor(principal))].id)
                       ELSE PlaceProposal(FALSE, to_string(principal),
                                          DesiredVersion(principal))

\* the result holds a PendingProposal for one subnet of the stage, found
\* behind an executed proposal for the same subnet, and a PlaceProposal for
\* the other subnet
C8_Witness ==
    /\ result.kind = "Ok"
    /\ 3 \in Evaluated
    /\ result = StageResult(3)
    /\ \E a, b \in Actions : a.type = "PendingProposal" /\ b.type = "PlaceProposal"
    /\ \E j \in 1..Len(StageAt(3).subnets) :
          /\ OpenFor(SubnetOf(3, j)) # {}
          /\ CurrentVersion(SubnetOf(3, j)) # DesiredVersion(SubnetOf(3, j))

\* bake_time - observed, in whole nanoseconds, rounded to the nearest
RemainingNanos(principal, stage) ==
    LET short == as_secs_f64(stage.bake_time) - last_bake_status[principal]
    IN  IF short <= 0 THEN 0 ELSE (2 * short + NanosQ) \div (2 * NanosQ)

\* the action is Noop{prefix} iff observed >= bake_time, and otherwise
\* Baking{prefix, remaining} with remaining = bake_time - observed
ExactOutcome(a, prefix, principal, stage) ==
    IF last_bake_status[principal] >= as_secs_f64(stage.bake_time)
    THEN a = Noop(prefix)
    ELSE /\ a.type = "Baking"
         /\ a.subnet_short = prefix
         /\ as_secs_f64(a.remaining)
               = as_secs_f64(stage.bake_time) - last_bake_status[principal]

\* the action is Noop{prefix} iff bake_time - observed is zero or less in
\* whole nanoseconds, and otherwise Baking{prefix, remaining} with remaining
\* that many nanoseconds
RoundedOutcome(a, prefix, principal, stage) ==
    IF RemainingNanos(principal, stage) = 0
    THEN a = Noop(prefix)
    ELSE a = Baking(prefix, RemainingNanos(principal, stage))

\* the j-th action of evaluated stage k, for a subnet that runs its desired
\* version and has a bake sample, is Noop or Baking by the observed bake
\* itself (exact), or by the remaining bake time in whole nanoseconds
BakeOutcome(exact) ==
    \A k \in Evaluated : \A j \in 1..Len(StageAt(k).subnets) :
        LET prefix == StageAt(k).subnets[j]
            principal == SubnetOf(k, j)
            stage == StageAt(k)
        IN  (/\ StageResult(k).kind = "Ok"
             /\ CurrentVersion(principal) = DesiredVersion(principal)
             /\ principal \in DOMAIN last_bake_status)
              => /\ Len(StageResult(k).actions) = Len(stage.subnets)
                 /\ IF exact
                    THEN ExactOutcome(StageResult(k).actions[j], prefix, principal, stage)
                    ELSE RoundedOutcome(StageResult(k).actions[j], prefix, principal, stage)

\* C9 as stated: for a subnet of the evaluated subnet stage that runs its
\* desired version and has a bake sample, the action is Noop{prefix} iff
\* observed >= bake_time, and otherwise Baking{prefix, remaining} with
\* remaining = bake_time - observed > 0, whatever proposals name the subnet.
C9_NoopOrBaking_AsStated == BakeOutcome(TRUE)

\* C9 as amended: the action is Noop{prefix} iff bake_time - observed, rounded
\* to the nearest nanosecond, is zero or less, and otherwise Baking{prefix,
\* remaining} with remaining that rounded difference, whatever proposals,
\* open or executed, name the subnet.
C9_NoopOrBaking == BakeOutcome(FALSE)

\* a Baking action for a subnet on its desired version that an open proposal
\* names
C9_Witness ==
    /\ result.kind = "Ok"
    /\ \E k \in Evaluated : \E j \in 1..Len(StageAt(k).subnets) :
          /\ result = StageResult(k)
          /\ CurrentVersion(SubnetOf(k, j)) = DesiredVersion(SubnetOf(k, j))
          /\ SubnetOf(k, j) \in DOMAIN last_bake_status
          /\ result.actions[j].type = "Baking"
          /\ \E i \in ProposalsFor(SubnetOf(k, j)) :
                ~subnet_update_proposals[i].executed

\* a Noop action for a subnet on its desired version whose sample has reached
\* the bake time, while an executed proposal names the subnet
C9_WitnessNoop ==
    /\ result.kind = "Ok"
    /\ \E k \in Evaluated : \E j \in 1..Len(StageAt(k).subnets) :
          /\ StageResult(k).kind = "Ok"
          /\ CurrentVersion(SubnetOf(k, j)) = DesiredVersion(SubnetOf(k, j))
          /\ BakedInFull(SubnetOf(k, j), StageAt(k))
          /\ StageResult(k).actions[j].type = "Noop"
          /\ ProposalsFor(SubnetOf(k, j)) # {}

-----------------------------------------------------------------------------
(* C10: the action of an unassigned-nodes stage.                            *)

\* the unassigned-nodes stages check_stage is called on in this call
EvaluatedUnassigned ==
    {k \in 1..NumStages :
        /\ Resolved
        /\ StageAt(k).update_unassigned_nodes
        /\ ~Waiting(k)
        /\ \A j \in 1..(k - 1) : Complete(j)}

\* the proposals that are not executed and whose payload holds the target
OpenForUnassigned ==
    {i \in 1..Len(unassigned_node_update_proposals) :
        /\ ~unassigned_node_update_proposals[i].executed
        /\ unassigned_node_update_proposals[i].replica_version # "None"
        /\ unassigned_node_update_proposals[i].replica_version
              = Desired.unassigned_nodes.version}

\* C10: an unassigned-nodes stage yields exactly one action:
\* Noop{"unassigned-nodes"} when the current unassigned version equals the
\* desired one; otherwise PendingProposal{"unassigned-version", id} with the
\* id of the first proposal that is not executed and whose payload version is
\* present and equal to the target; otherwise PlaceProposal{is_unassigned =
\* true, version = target}.
C10_UnassignedStage ==
    \A k \in EvaluatedUnassigned :
        /\ StageResult(k).kind = "Ok"
        /\ Len(StageResult(k).actions) = 1
        /\ StageResult(k).actions[1] =
              IF unassigned_version = Desired.unassigned_nodes.version
              THEN Noop(UnassignedNodesLabel)
              ELSE IF OpenForUnassigned # {}
                   THEN PendingProposal(UnassignedVersionLabel,
                           unassigned_node_update_proposals[Min(OpenForUnassigned)].id)
                   ELSE PlaceProposal(TRUE, EmptyString,
                                      Desired.unassigned_nodes.version)
        /\ ~Complete(k) => result = StageResult(k)

\* the result is the PendingProposal of the unassigned-nodes stage, with the
\* id of the second proposal of the list: the first one is executed or holds
\* another payload
C10_Witness ==
    /\ result.kind = "Ok"
    /\ 2 \in EvaluatedUnassigned
    /\ Min(OpenForUnassigned \cup {MaxProposals + 1}) = 2
    /\ result.actions =
          <<PendingProposal(UnassignedVersionLabel,
                            unassigned_node_update_proposals[2].id)>>

-----------------------------------------------------------------------------
(* C11: wait_for_next_week.                                                 *)

\* some date after the start of the active release, up to today, is a Monday
MondaySinceStart ==
    \E d \in (date(Desired.release) + 1)..now : IsMonday(d)

\* the walk reaches stage k: every stage before it is complete
Reached(k) == Resolved /\ \A j \in 1..(k - 1) : Complete(j)

\* the plan with wait_for_next_week cleared in stage k
WithoutWait(k) ==
    [index EXCEPT !.rollout.stages[k].wait_for_next_week = FALSE]

\* C11: when the walk reaches a stage with wait_for_next_week and no Monday
\* has come since the start of the active release, the result is exactly one
\* WaitForNextWeek{prefix} per prefix of that stage, in the stage's order,
\* whatever the stage's subnets or the later stages would yield; once a
\* Monday has come the result is that of the same plan without the flag.
C11_WaitForNextWeek ==
    \A k \in 1..NumStages :
        (Reached(k) /\ StageAt(k).wait_for_next_week)
          => IF ~MondaySinceStart
             THEN /\ result.kind = "Ok"
                  /\ Len(result.actions) = Len(StageAt(k).subnets)
                  /\ \A j \in 1..Len(StageAt(k).subnets) :
                        result.actions[j] = WaitForNextWeek(StageAt(k).subnets[j])
             ELSE result = check_stages(last_bake_status, subnet_update_proposals,
                                        unassigned_node_update_proposals,
                                        WithoutWait(k), unassigned_version,
                                        subnets, now)

\* the stage is held back: two WaitForNextWeek actions in the stage's order
C11_Witness ==
    /\ Reached(3)
    /\ ~MondaySinceStart
    /\ result = Ok(<<WaitForNextWeek(<<2, 2, 2, 2, 2>>),
                     WaitForNextWeek(<<1, 1, 1, 1, 1, 2>>)>>)

\* the stage is held back although evaluating its subnets would fail
C11_WitnessNotEvaluated ==
    /\ Reached(3)
    /\ ~MondaySinceStart
    /\ check_stage(last_bake_status, subnet_update_proposals,
                   unassigned_node_update_proposals, StageAt(3),
                   unassigned_version, subnets, Desired).kind = "Err"
    /\ result.kind = "Ok"

\* the Monday has come: a PlaceProposal for a subnet of the stage
C11_WitnessWeekPassed ==
    /\ Reached(3)
    /\ StageAt(3).wait_for_next_week
    /\ MondaySinceStart
    /\ \E a \in Actions : a.type = "PlaceProposal" /\ ActionOfStage(a, StageAt(3))

-----------------------------------------------------------------------------
(* C12: week_passed.                                                        *)

\* the start dates of the releases of the catalog
StartDates == {date(index.releases[k]) : k \in 1..Len(index.releases)}

\* C12: week_passed(release_start, today) is true iff some date d with
\* release_start < d <= today is a Monday; it is false when today <=
\* release_start, also when release_start is a Monday; and once true it stays
\* true for every later today with the same release_start.
C12_WeekPassed ==
    /\ [](\A release_start \in StartDates :
            /\ week_passed(release_start, now)
                  <=> \E d \in (release_start + 1)..now : IsMonday(d)
            /\ now <= release_start => ~week_passed(release_start, now))
    /\ [][\A release_start \in StartDates :
            (now' >= now /\ week_passed(release_start, now))
               => week_passed(release_start, now')]_vars

\* today is the Monday the active release starts on, and the stage is held
\* back
C12_Witness ==
    /\ Resolved
    /\ IsMonday(date(Desired.release))
    /\ now = date(Desired.release)
    /\ should_proceed(index, now)
    /\ result.kind = "Ok"
    /\ result.actions # <<>>
    /\ \A a \in Actions : a.type = "WaitForNextWeek"

\* today is the first Monday after the start of the active release, and the
\* stage is evaluated
C12_WitnessMonday ==
    /\ NumStages = 3
    /\ Reached(3)
    /\ StageAt(3).wait_for_next_week
    /\ IsMonday(now) /\ now - date(Desired.release) \in 1..7
    /\ should_proceed(index, now)
    /\ \E a \in Actions : a.type = "PlaceProposal"

-----------------------------------------------------------------------------
(* C13: a missing bake sample.                                              *)

\* the subnets of stage k that run their desired version and have no sample
Unsampled(k) ==
    {j \in 1..Len(StageAt(k).subnets) :
        /\ CurrentVersion(SubnetOf(k, j)) = DesiredVersion(SubnetOf(k, j))
        /\ SubnetOf(k, j) \notin DOMAIN last_bake_status}

\* C13: if a subnet of the evaluated stage runs its desired version and the
\* bake snapshot has no sample for it, the whole call returns the error of
\* the bake clock and no action list.
C13_UnknownBake ==
    \A k \in Evaluated :
        Unsampled(k) # {}
          => /\ result.kind = "Err"
             /\ result.error = "subnet not found"
             /\ result.actions = <<>>

\* the call fails for one subnet of the third stage while the other subnet
\* of the stage does not run its desired version
C13_Witness ==
    /\ 3 \in Evaluated
    /\ Unsampled(3) # {}
    /\ \E j \in 1..Len(StageAt(3).subnets) :
          CurrentVersion(SubnetOf(3, j)) # DesiredVersion(SubnetOf(3, j))
    /\ result.kind = "Err"

-----------------------------------------------------------------------------
(* C14: rollout finished.                                                   *)

\* every prefix of every subnet stage names a subnet, every subnet named runs
\* its desired version with observed bake >= its stage's bake_time, and the
\* unassigned nodes run the desired unassigned version
Finished ==
    /\ Resolved
    /\ \A k \in 1..NumStages :
          /\ \A j \in 1..Len(StageAt(k).subnets) : Named(StageAt(k).subnets[j]) # {}
          /\ Done(k, TRUE)

\* some stage with wait_for_next_week is held back
HeldBack ==
    \E k \in 1..NumStages : StageAt(k).wait_for_next_week /\ ~MondaySinceStart

\* C14 as stated: whenever every subnet named by every subnet stage runs its
\* desired version with observed bake >= its stage's bake_time and the
\* unassigned nodes run the desired unassigned version, the result is the
\* empty action list.
C14_RolloutFinished_AsStated == Finished => result = Ok(<<>>)

\* C14 as amended: the same, when no stage with wait_for_next_week is held
\* back for the Monday after the start of the active release.
C14_RolloutFinished == (Finished /\ ~HeldBack) => result = Ok(<<>>)

\* the walk has gone through the three stages of a finished rollout, the
\* last of them a wait_for_next_week stage, after the Monday
C14_Witness ==
    /\ Finished
    /\ should_proceed(index, now)
    /\ NumStages = 3
    /\ StageAt(3).wait_for_next_week
    /\ MondaySinceStart
    /\ result = Ok(<<>>)

-----------------------------------------------------------------------------
(* C15, C16: the active release.                                            *)

\* the version ids of a release
VersionsOf(release) ==
    {release.versions[v].version : v \in 1..Len(release.versions)}

\* every subnet's desired version, and the version of every PlaceProposal for
\* a subnet or for the unassigned nodes, is a version of the release
TargetsIn(release) ==
    /\ \A principal \in Fleet : DesiredVersion(principal) \in VersionsOf(release)
    /\ \A a \in Actions : a.type = "PlaceProposal" => a.version \in VersionsOf(release)

\* C15: when the subnets' current versions belong to exactly two releases,
\* the active release is the newer of the two in catalog order, whatever
\* newer or older releases the catalog also holds; every subnet's desired
\* version is a version of that release.
C15_TwoReleases ==
    (VersionsKnown /\ Cardinality(ReleasesInUse) = 2)
      => /\ Resolved
         /\ Desired.release = index.releases[Min(ReleasesInUse)]
         /\ TargetsIn(index.releases[Min(ReleasesInUse)])

\* two releases in use, with a newer and an older release in the catalog
\* that no subnet runs, and a PlaceProposal in the result
C15_Witness ==
    /\ VersionsKnown
    /\ Cardinality(ReleasesInUse) = 2
    /\ 1 \notin ReleasesInUse
    /\ Len(index.releases) \notin ReleasesInUse
    /\ \E a \in Actions : a.type = "PlaceProposal"

\* C16: when all subnets' current versions belong to a single release at
\* catalog index i (newest first), the active release is the one at index
\* max(i-1, 0): the immediately newer release, and the same release when the
\* fleet already runs the newest one.
C16_SingleRelease ==
    (VersionsKnown /\ Cardinality(ReleasesInUse) = 1)
      => LET i == Min(ReleasesInUse)
             active == IF i > 1 THEN i - 1 ELSE 1
         IN  /\ Resolved
             /\ Desired.release = index.releases[active]
             /\ TargetsIn(index.releases[active])

\* the fleet on a single release with two or more newer releases in the
\* catalog, and PlaceProposal in the result
C16_Witness ==
    /\ VersionsKnown
    /\ Cardinality(ReleasesInUse) = 1
    /\ Min(ReleasesInUse) >= 3
    /\ \E a \in Actions : a.type = "PlaceProposal"

\* the fleet on the newest release of the catalog
C16_WitnessNewest ==
    /\ ReleasesInUse = {1}
    /\ Resolved
    /\ Desired.release = index.releases[1]
    /\ \E a \in Actions : a.type = "Baking"

-----------------------------------------------------------------------------
(* C17, C18: prefixes that do not name exactly one subnet.                  *)

\* some prefix of the plan is the start of several subnets' ids, or of none
HasAmbiguousPrefix ==
    \E k \in 1..NumStages : \E j \in 1..Len(StageAt(k).subnets) :
       Cardinality(Named(StageAt(k).subnets[j])) > 1
HasUnknownPrefix ==
    \E k \in 1..NumStages : \E j \in 1..Len(StageAt(k).subnets) :
       Named(StageAt(k).subnets[j]) = {}

\* C17: a stage prefix that matches the ids of more than one subnet of the
\* fleet makes the engine fail and emit no actions, rather than choose one
\* of the matching subnets.
C17_AmbiguousPrefix ==
    HasAmbiguousPrefix => (result.kind # "Ok" /\ result.actions = <<>>)

\* C18: a stage prefix that matches no subnet of the fleet makes the tick
\* fail with an error that is returned to the caller as a value, with no
\* actions.
C18_UnknownSubnet ==
    HasUnknownPrefix => (result.kind = "Err" /\ result.actions = <<>>)

-----------------------------------------------------------------------------
(* C19, C20: the gates of the driver.                                       *)

\* what check_stages yields on the snapshot
Ungated ==
    check_stages(last_bake_status, subnet_update_proposals,
                 unassigned_node_update_proposals, index, unassigned_version,
                 subnets, now)

\* C19: when rollout.pause is true the engine returns the empty action list,
\* whatever the subnet versions, proposals, bake samples and date are.
C19_Pause == index.rollout.pause => result = Ok(<<>>)

\* the rollout is paused where check_stages has a proposal to place
C19_Witness ==
    /\ index.rollout.pause
    /\ Ungated.kind = "Ok"
    /\ \E j \in 1..Len(Ungated.actions) : Ungated.actions[j].type = "PlaceProposal"
    /\ result = Ok(<<>>)

\* C20: when today's weekday is in rollout.skip_days the engine returns the
\* empty action list, whatever the subnet versions, proposals and bake
\* samples are.
C20_SkipDays == weekday(now) \in index.rollout.skip_days => result = Ok(<<>>)

\* today is a skip day where check_stages has a proposal to place
C20_Witness ==
    /\ weekday(now) \in index.rollout.skip_days
    /\ Ungated.kind = "Ok"
    /\ \E j \in 1..Len(Ungated.actions) : Ungated.actions[j].type = "PlaceProposal"
    /\ result = Ok(<<>>)

\* the day after the skip day the proposal is placed
C20_WitnessNextDay ==
    /\ index.rollout.skip_days # {}
    /\ weekday(now) \notin index.rollout.skip_days
    /\ \E a \in Actions : a.type = "PlaceProposal"

-----------------------------------------------------------------------------
(* C21: no partial results.                                                 *)

\* the list is complete for stage k: one action for the unassigned nodes, or
\* one action per prefix
CompleteList(actions, k) ==
    Len(actions) = IF StageAt(k).update_unassigned_nodes THEN 1
                   ELSE Len(StageAt(k).subnets)

\* C21: each call yields either one complete action list or one failure
\* without actions; when the evaluation of a stage fails for one of its
\* subnets, the actions computed for the subnets before it are not returned.
C21_NeverPartial ==
    /\ result.kind \in {"Ok", "Err", "Panic"}
    /\ result.kind = "Ok" => result.error = "none"
    /\ result.kind # "Ok" => (result.actions = <<>> /\ result.error # "none")
    /\ (result.kind = "Ok" /\ result.actions # <<>>)
          => \E k \in 1..NumStages :
                /\ CompleteList(result.actions, k)
                /\ \A a \in Actions : ActionOfStage(a, StageAt(k))

\* the first subnet of the third stage needs a proposal and the second has
\* no bake sample: the call fails and returns no action
C21_Witness ==
    /\ 3 \in Evaluated
    /\ CurrentVersion(SubnetOf(3, 1)) # DesiredVersion(SubnetOf(3, 1))
    /\ Unsampled(3) = {2}
    /\ result.kind = "Err"
    /\ result.actions = <<>>

-----------------------------------------------------------------------------
(* C22: one action per prefix.                                              *)

\* the action is the one of the prefix
ActionOfPrefix(a, prefix) ==
    IF a.type = "PlaceProposal"
    THEN ~a.is_unassigned /\ starts_with(a.subnet_principal, prefix)
    ELSE a.subnet_short = prefix

\* the subnet stage whose action list the call returns
Returned ==
    {k \in 1..NumStages :
        /\ should_proceed(index, now)
        /\ Reached(k)
        /\ ~StageAt(k).update_unassigned_nodes
        /\ ~Complete(k)
        /\ result.kind = "Ok"}

\* C22: a returned subnet-stage action list has exactly one action per prefix
\* of the stage, in the stage's order, the Noop of the subnets that are done
\* included; two prefixes of the stage that name the same subnet get the same
\* variant, so that no subnet gets two different variants in one call.
C22_OneActionPerPrefix ==
    \A k \in Returned :
        /\ Len(result.actions) = Len(StageAt(k).subnets)
        /\ \A j \in 1..Len(StageAt(k).subnets) :
              ActionOfPrefix(result.actions[j], StageAt(k).subnets[j])
        /\ \A i, j \in 1..Len(StageAt(k).subnets) :
              (/\ Named(StageAt(k).subnets[i]) = Named(StageAt(k).subnets[j])
               /\ Cardinality(Named(StageAt(k).subnets[i])) = 1)
                 => result.actions[i].type = result.actions[j].type

\* two prefixes of the returned stage name one subnet, which is done: two
\* Noop actions and the PendingProposal or PlaceProposal of another subnet
C22_Witness ==
    /\ 1 \in Returned
    /\ Len(result.actions) = 3
    /\ StageAt(1).subnets[1] # StageAt(1).subnets[2]
    /\ Named(StageAt(1).subnets[1]) = Named(StageAt(1).subnets[2])
    /\ result.actions[1].type = "Noop" /\ result.actions[2].type = "Noop"
    /\ result.actions[3].type \in {"PendingProposal", "PlaceProposal"}

\* two PlaceProposal actions for one subnet in one call
C22_WitnessTwice ==
    /\ 1 \in Returned
    /\ Len(result.actions) = 3
    /\ result.actions[1].type = "PlaceProposal"
    /\ result.actions[1] = result.actions[2]

-----------------------------------------------------------------------------
(* C23: proposals for a subnet that is not in the fleet.                    *)

InFleet(proposal) ==
    \E i \in 1..Len(subnets) : subnets[i].principal = proposal.subnet_id

\* C23: the subnet-update proposals that reference a subnet absent from the
\* fleet are irrelevant: the call returns what it returns for the list without
\* them, the same actions or the same failure, whether they are open or
\* executed and whatever their version.
C23_AbsentSubnetProposals ==
    result = Tick(last_bake_status, SelectSeq(subnet_update_proposals, InFleet),
                  unassigned_node_update_proposals, index, unassigned_version,
                  subnets, now)

\* an open proposal for an absent subnet carries the version a subnet of the
\* fleet is about to get, and the call still places the proposal for that subnet
C23_Witness ==
    \E k \in 1..Len(subnet_update_proposals), a \in Actions :
        /\ ~InFleet(subnet_update_proposals[k])
        /\ ~subnet_update_proposals[k].executed
        /\ a.type = "PlaceProposal"
        /\ ~a.is_unassigned
        /\ a.version = subnet_update_proposals[k].replica_version_id

-----------------------------------------------------------------------------
(* C24: the open proposal of a subnet.                                      *)

\* the versions the proposals of the list carry
VersionsOfProposals ==
    {subnet_update_proposals[k].replica_version_id :
        k \in 1..Len(subnet_update_proposals)} \cup {"C.default"}

\* the proposal at position k is for the subnet and the version, and is open
Fits(k, subnet, version) ==
    /\ subnet_update_proposals[k].subnet_id = subnet.principal
    /\ subnet_update_proposals[k].replica_version_id = version
    /\ ~subnet_update_proposals[k].executed

\* C24: get_open_proposal_for_subnet returns the first proposal in list order
\* whose subnet id is the subnet's, whose version is the desired version and
\* which is not executed, and none when no proposal satisfies the three
\* conditions: an executed proposal, a proposal for another version and a
\* proposal for another subnet are never returned.
C24_FirstOpenProposal ==
    \A i \in 1..Len(subnets) : \A version \in VersionsOfProposals :
        LET found == get_open_proposal_for_subnet(subnet_update_proposals,
                                                  subnets[i], version)
        IN  IF \E k \in 1..Len(subnet_update_proposals) : Fits(k, subnets[i], version)
            THEN /\ found \in 1..Len(subnet_update_proposals)
                 /\ Fits(found, subnets[i], version)
                 /\ \A k \in 1..(found - 1) : ~Fits(k, subnets[i], version)
            ELSE found = 0

\* two open proposals for one subnet and its desired version follow a
\* proposal that does not fit: the second position is found and is the
\* proposal the PendingProposal of the result names
C24_Witness ==
    \E i \in 1..Len(subnets) :
        /\ Resolved
        /\ Len(subnet_update_proposals) = 3
        /\ ~Fits(1, subnets[i], DesiredVersion(subnets[i].principal))
        /\ Fits(2, subnets[i], DesiredVersion(subnets[i].principal))
        /\ Fits(3, subnets[i], DesiredVersion(subnets[i].principal))
        /\ get_open_proposal_for_subnet(subnet_update_proposals, subnets[i],
                                        DesiredVersion(subnets[i].principal)) = 2
        /\ \E a \in Actions :
              /\ a.type = "PendingProposal"
              /\ a.proposal_id = subnet_update_proposals[2].id

-----------------------------------------------------------------------------
(* C25: the version of the unassigned nodes.                                *)

\* the active release of C15 and C16, by its place in the catalog
ActiveRelease ==
    index.releases[IF Cardinality(ReleasesInUse) = 2 \/ Min(ReleasesInUse) = 1
                   THEN Min(ReleasesInUse)
                   ELSE Min(ReleasesInUse) - 1]

\* C25: the desired version for the unassigned nodes is always the version
\* at position 0 of the active release, also when the active release holds
\* feature builds; every PlaceProposal with is_unassigned = true carries it.
C25_UnassignedVersion ==
    Resolved =>
        /\ Desired.unassigned_nodes.version = ActiveRelease.versions[1].version
        /\ \A a \in Actions :
              (a.type = "PlaceProposal" /\ a.is_unassigned)
                 => a.version = ActiveRelease.versions[1].version

\* the active release holds feature builds and the result places the proposal
\* for the unassigned nodes
C25_Witness ==
    /\ Resolved
    /\ Len(ActiveRelease.versions) > 1
    /\ result.kind = "Ok"
    /\ \E a \in Actions :
          /\ a.type = "PlaceProposal"
          /\ a.is_unassigned
          /\ a.version = ActiveRelease.versions[1].version

-----------------------------------------------------------------------------
(* C26: a held-back stage that has nothing left to do.                      *)

\* every prefix of stage k names a subnet and nothing is left to do for them
NothingLeft(k) ==
    /\ \A j \in 1..Len(StageAt(k).subnets) : Named(StageAt(k).subnets[j]) # {}
    /\ Done(k, TRUE)

\* C26: when the walk reaches a stage with wait_for_next_week and the week
\* has not passed, the WaitForNextWeek actions are emitted even if every
\* subnet of that stage already runs its desired version with its bake time
\* elapsed, where the stage would otherwise yield only Noop.
C26_WaitBeforeNoop ==
    \A k \in 1..NumStages :
        (/\ should_proceed(index, now)
         /\ Reached(k)
         /\ StageAt(k).wait_for_next_week
         /\ ~MondaySinceStart
         /\ NothingLeft(k))
          => /\ result.kind = "Ok"
             /\ result.actions =
                   [j \in 1..Len(StageAt(k).subnets) |->
                       WaitForNextWeek(StageAt(k).subnets[j])]

\* the two subnets of the held-back stage run their desired version and
\* have baked; the stage's own actions are Noop and the result is the wait
C26_Witness ==
    /\ should_proceed(index, now)
    /\ NumStages = 3
    /\ Reached(3)
    /\ StageAt(3).wait_for_next_week
    /\ ~MondaySinceStart
    /\ NothingLeft(3)
    /\ all_noop(check_stage(last_bake_status, subnet_update_proposals,
                            unassigned_node_update_proposals, StageAt(3),
                            unassigned_version, subnets, Desired).actions)
    /\ Len(result.actions) = 2
    /\ \A a \in Actions : a.type = "WaitForNextWeek"

-----------------------------------------------------------------------------
(* C27: the remaining bake time.                                            *)

\* the remaining time is the exact difference of the two f64 seconds
ExactDifference(remaining, difference) == remaining = difference

\* the remaining time is the difference rounded to the nearest nanosecond
NearestNanosecond(remaining, difference) ==
    /\ remaining % NanosQ = 0
    /\ 2 * (remaining - difference) <= NanosQ
    /\ 2 * (difference - remaining) <= NanosQ

\* for every bake requirement the function returns 0 when the sample has
\* reached it and the difference otherwise, exact or to the nanosecond, and
\* never a negative value
RemainingBakeTimeIs(exact) ==
    BakeSubnet(subnets).principal \in DOMAIN last_bake_status =>
        \A stage_bake_time \in BakeValues :
            LET observed == last_bake_status[BakeSubnet(subnets).principal]
                remaining == get_remaining_bake_time_for_subnet(
                                 last_bake_status, BakeSubnet(subnets), stage_bake_time)
            IN  /\ remaining.kind = "Ok"
                /\ remaining.actions >= 0
                /\ IF observed >= stage_bake_time
                   THEN remaining.actions = 0
                   ELSE IF exact
                        THEN ExactDifference(remaining.actions,
                                             stage_bake_time - observed)
                        ELSE NearestNanosecond(remaining.actions,
                                               stage_bake_time - observed)

C27_WitnessNegative ==
    /\ BakeSubnet(subnets).principal \in DOMAIN last_bake_status
    /\ last_bake_status[BakeSubnet(subnets).principal] = 0 - 2 * NanosQ
    /\ result = get_remaining_bake_time_for_subnet(last_bake_status,
                                                   BakeSubnet(subnets), 0 - 3 * NanosQ)
    /\ result = Ok(0)

-----------------------------------------------------------------------------
(* C28: several versions pin one subnet.                                    *)

\* the subnets of the fleet that several versions of the active release pin
PinnedTwice == {principal \in Fleet : Cardinality(PinnedTo(principal)) > 1}

\* C28: when several versions of the active release pin a prefix of the
\* same subnet's id, the subnet's desired version is the first such version
\* in the release's version order, and the PlaceProposal for the subnet
\* carries it.
C28_FirstPinningVersion ==
    Resolved =>
        /\ \A principal \in PinnedTwice :
              DesiredVersion(principal)
                 = Desired.release.versions[Min(PinnedTo(principal))].version
        /\ \A a \in Actions :
              (/\ a.type = "PlaceProposal"
               /\ ~a.is_unassigned
               /\ from_str(a.subnet_principal) \in PinnedTwice)
                 => a.version = Desired.release.versions[
                                   Min(PinnedTo(from_str(a.subnet_principal)))].version

\* the second and the third version of the active release pin the subnet,
\* and the result places the proposal for the second
C28_Witness ==
    /\ Resolved
    /\ result.kind = "Ok"
    /\ \E a \in Actions :
          /\ a.type = "PlaceProposal"
          /\ ~a.is_unassigned
          /\ PinnedTo(from_str(a.subnet_principal)) = {2, 3}
          /\ a.version = Desired.release.versions[2].version

-----------------------------------------------------------------------------
(* C29: short prefixes.                                                     *)

\* some prefix of the plan is shorter than 5 characters
HasShortPrefix ==
    \E k \in 1..NumStages : \E j \in 1..Len(StageAt(k).subnets) :
       Len(StageAt(k).subnets[j]) < 5

\* C29: a stage prefix shorter than 5 characters is rejected: the engine
\* fails with a plan error and emits no actions, even when the short prefix
\* matches exactly one subnet of the fleet.
C29_ShortPrefix ==
    HasShortPrefix => (result.kind # "Ok" /\ result.actions = <<>>)

-----------------------------------------------------------------------------
(* C30: the empty release catalog.                                          *)

\* C30: with an empty release catalog the engine fails with the
\* EmptyReleaseCatalog error, returned to the caller as a value, and emits
\* no actions.
C30_EmptyReleaseCatalog ==
    index.releases = <<>> => (result.kind = "Err" /\ result.actions = <<>>)

-----------------------------------------------------------------------------
(* C31: the closed loop ends.                                               *)

\* every proposal of either list is executed
AllExecuted ==
    /\ \A i \in 1..Len(subnet_update_proposals) : subnet_update_proposals[i].executed
    /\ \A i \in 1..Len(unassigned_node_update_proposals) :
          unassigned_node_update_proposals[i].executed

\* C31: in the closed loop (a fixed plan, the catalog [new, old], the fleet
\* and the unassigned nodes on the old release, every PlaceProposal turned
\* into an open proposal, every open proposal executed in the end with the
\* target on the proposal's version and its bake sample at 0, samples growing
\* and the date advancing) check_stages never returns an error, eventually
\* returns the empty list and returns it on every later tick.
C31_ClosedLoopEnds ==
    /\ [](result.kind = "Ok")
    /\ <>[](result = Ok(<<>>))

\* the rollout is over: the subnets of the plan and the unassigned nodes run
\* the new release through executed proposals, and the result is empty
C31_Witness ==
    /\ result = Ok(<<>>)
    /\ Finished
    /\ AllExecuted
    /\ Len(subnet_update_proposals) = 3
    /\ Len(unassigned_node_update_proposals) = 1
    /\ unassigned_version = "C.default"
    /\ \A i \in 1..Len(subnets) : subnets[i].replica_version # "B.default"

-----------------------------------------------------------------------------
(* C32: the active release moves to newer releases only.                    *)

\* the place of the active release in the catalog, newest first
ActivePositionIn(snap) ==
    CHOOSE k \in 1..Len(snap.index.releases) :
        snap.index.releases[k] = DesiredIn(snap).release

\* every subnet runs a version of the release at place k
AllOnIn(snap, k) ==
    \A i \in 1..Len(snap.subnets) :
        snap.subnets[i].replica_version \in VersionsOf(snap.index.releases[k])

\* the catalog is the same and a subnet's version changes only to the
\* desired version computed for it in this tick
StepToDesired ==
    /\ index' = index
    /\ Resolved
    /\ \A i \in 1..Len(subnets) :
          /\ subnets'[i].principal = subnets[i].principal
          /\ subnets'[i].replica_version # subnets[i].replica_version
                => subnets'[i].replica_version = DesiredVersion(subnets[i].principal)

\* the proposals of the next tick that are open, for the subnet and the version
OpenNext(principal, version) ==
    {k \in 1..Len(subnet_update_proposals') :
        /\ subnet_update_proposals'[k].subnet_id = principal
        /\ subnet_update_proposals'[k].replica_version_id = version
        /\ ~subnet_update_proposals'[k].executed}

\* the next result is the PlaceProposal of every subnet of the first stage
FirstStagePlaced ==
    /\ result'.kind = "Ok"
    /\ Len(result'.actions) = Len(StageAt(1).subnets)
    /\ \A j \in 1..Len(StageAt(1).subnets) :
          /\ result'.actions[j].type = "PlaceProposal"
          /\ ~result'.actions[j].is_unassigned
          /\ starts_with(result'.actions[j].subnet_principal, StageAt(1).subnets[j])

\* the next result is that of the first stage on the newer release: the
\* wait when the stage is held back; otherwise, for every subnet of the stage,
\* PlaceProposal, or PendingProposal when an open proposal for its new
\* desired version is there already
FirstStageAgain ==
    /\ result'.kind = "Ok"
    /\ Len(result'.actions) = Len(StageAt(1).subnets)
    /\ \A j \in 1..Len(StageAt(1).subnets) :
          IF WaitingIn(NextSnapshot, 1)
          THEN result'.actions[j] = WaitForNextWeek(StageAt(1).subnets[j])
          ELSE LET principal == SubnetOf(1, j)
                   version == DesiredIn(NextSnapshot).subnets[principal].version
               IN  IF OpenNext(principal, version) = {}
                   THEN result'.actions[j]
                           = PlaceProposal(FALSE, to_string(principal), version)
                   ELSE result'.actions[j].type = "PendingProposal"

\* along the steps in which versions change only to the desired ones, the
\* active release never moves to an older place; it moves to the next newer
\* release exactly when the last subnet has reached the active release and a
\* newer release exists, and the first stage then starts again
ActiveReleaseMoves(placed) ==
    StepToDesired =>
        LET before == ActivePositionIn(Snapshot)
            after == ActivePositionIn(NextSnapshot)
        IN  /\ DesiredIn(NextSnapshot).panic = "none"
            /\ after <= before
            /\ (after < before) <=> (before > 1 /\ AllOnIn(NextSnapshot, before))
            /\ (after < before) =>
                  /\ after = before - 1
                  /\ IF placed THEN FirstStagePlaced ELSE FirstStageAgain

\* C32 as stated: with a fixed catalog, along the ticks in which each
\* subnet's version changes only to the desired version of the preceding
\* tick, the active release never moves to an older catalog position; it
\* moves to the next newer release exactly when the last subnet has reached
\* the active release and a newer release exists, and the first stage's
\* subnets then get PlaceProposal again.
C32_ActiveReleaseMoves_AsStated == [][ActiveReleaseMoves(TRUE)]_vars

\* C32 as amended: the same, the first stage being evaluated again for the
\* newer release: WaitForNextWeek when the stage is held back, otherwise
\* PlaceProposal for each of its subnets, or PendingProposal when an open
\* proposal for the subnet's new desired version exists already.
C32_ActiveReleaseMoves == [][ActiveReleaseMoves(FALSE)]_vars

\* the last subnet has reached release B: the active release is C and the
\* first stage's subnet gets its PlaceProposal
C32_Witness ==
    /\ Resolved
    /\ Desired.release = index.releases[1]
    /\ AllOnIn(Snapshot, 2)
    /\ \E i \in 1..Len(subnet_update_proposals) :
          /\ subnet_update_proposals[i].executed
          /\ subnet_update_proposals[i].replica_version_id = "B.default"
    /\ result = Ok(<<PlaceProposal(FALSE, to_string(1), "C.default")>>)

\* the same with the first stage held back until the Monday after the start
\* of release C
C32_WitnessWait ==
    /\ Resolved
    /\ Desired.release = index.releases[1]
    /\ AllOnIn(Snapshot, 2)
    /\ \E i \in 1..Len(subnet_update_proposals) :
          /\ subnet_update_proposals[i].executed
          /\ subnet_update_proposals[i].replica_version_id = "B.default"
    /\ result = Ok(<<WaitForNextWeek(<<1, 1, 1, 1, 1, 1>>)>>)

-----------------------------------------------------------------------------
(* C33: no downgrade of a subnet.                                           *)

\* the places in the catalog of the releases that hold the version
ReleasesOf(version) ==
    {k \in 1..Len(index.releases) : version \in VersionsOf(index.releases[k])}

\* C33: every PlaceProposal with is_unassigned = false carries a version
\* that belongs to the active release, differs from the subnet's current
\* version, and does not belong to a release older in the catalog than the
\* release of the subnet's current version.
C33_NoDowngrade ==
    Resolved =>
        \A a \in Actions :
            (a.type = "PlaceProposal" /\ ~a.is_unassigned)
              => LET current == CurrentVersion(from_str(a.subnet_principal))
                 IN  /\ a.version \in VersionsOf(ActiveRelease)
                     /\ a.version # current
                     /\ \A new \in ReleasesOf(a.version) :
                           \A old \in ReleasesOf(current) : new <= old

\* a proposal to a newer release, and a proposal within the release (from
\* the default build to the feature build that pins the subnet)
C33_Witness ==
    /\ Resolved
    /\ \E a \in Actions :
          /\ a.type = "PlaceProposal" /\ ~a.is_unassigned
          /\ ReleasesOf(a.version) = {1}
          /\ ReleasesOf(CurrentVersion(from_str(a.subnet_principal))) = {2}
C33_WitnessSameRelease ==
    /\ Resolved
    /\ \E a \in Actions :
          /\ a.type = "PlaceProposal" /\ ~a.is_unassigned
          /\ a.version = "C.feature"
          /\ CurrentVersion(from_str(a.subnet_principal)) = "C.default"

-----------------------------------------------------------------------------
(* C34: executed proposals are not pending.                                 *)

\* the proposals for the subnet and its desired version, open or executed
MatchingFor(principal) ==
    {i \in 1..Len(subnet_update_proposals) :
        /\ subnet_update_proposals[i].subnet_id = principal
        /\ subnet_update_proposals[i].replica_version_id = DesiredVersion(principal)}

\* the proposals for the unassigned nodes and their desired version
MatchingForUnassigned ==
    {i \in 1..Len(unassigned_node_update_proposals) :
        unassigned_node_update_proposals[i].replica_version
           = Desired.unassigned_nodes.version}

\* C34: when a subnet of the evaluated stage, or the unassigned nodes of an
\* evaluated unassigned-nodes stage, does not run the desired version and
\* every proposal for that target and version is executed, check_stage emits
\* PlaceProposal for it again, not PendingProposal and not Noop.
C34_ExecutedNotPending ==
    /\ \A k \in Evaluated : \A j \in 1..Len(StageAt(k).subnets) :
          LET principal == SubnetOf(k, j)
          IN  (/\ StageResult(k).kind = "Ok"
               /\ CurrentVersion(principal) # DesiredVersion(principal)
               /\ MatchingFor(principal) # {}
               /\ \A i \in MatchingFor(principal) : subnet_update_proposals[i].executed)
                => StageResult(k).actions[j]
                      = PlaceProposal(FALSE, to_string(principal),
                                      DesiredVersion(principal))
    /\ \A k \in EvaluatedUnassigned :
          (/\ unassigned_version # Desired.unassigned_nodes.version
           /\ MatchingForUnassigned # {}
           /\ \A i \in MatchingForUnassigned :
                 unassigned_node_update_proposals[i].executed)
            => StageResult(k)
                  = Ok(<<PlaceProposal(TRUE, EmptyString,
                                       Desired.unassigned_nodes.version)>>)

\* an executed proposal for the subnet and its desired version is in the
\* list, the subnet does not run the version, and the result places the
\* proposal again
C34_Witness ==
    /\ result.kind = "Ok"
    /\ \E k \in Evaluated : \E j \in 1..Len(StageAt(k).subnets) :
          /\ result = StageResult(k)
          /\ CurrentVersion(SubnetOf(k, j)) # DesiredVersion(SubnetOf(k, j))
          /\ MatchingFor(SubnetOf(k, j)) # {}
          /\ \A i \in MatchingFor(SubnetOf(k, j)) : subnet_update_proposals[i].executed
          /\ result.actions[j].type = "PlaceProposal"

\* the same for the unassigned nodes
C34_WitnessUnassigned ==
    /\ result.kind = "Ok"
    /\ \E k \in EvaluatedUnassigned :
          /\ result = StageResult(k)
          /\ unassigned_version # Desired.unassigned_nodes.version
          /\ MatchingForUnassigned # {}
          /\ \A i \in MatchingForUnassigned :
                unassigned_node_update_proposals[i].executed
          /\ result.actions[1].type = "PlaceProposal"

-----------------------------------------------------------------------------
(* C35: the bake samples that are consulted.                                *)

\* the subnets of the evaluated stage that run their desired version
Consulted ==
    {principal \in Fleet :
        \E k \in Evaluated : \E j \in 1..Len(StageAt(k).subnets) :
           /\ principal \in Named(StageAt(k).subnets[j])
           /\ CurrentVersion(principal) = DesiredVersion(principal)}

\* the subnets without a bake sample
WithoutSample == {principal \in Fleet : principal \notin DOMAIN last_bake_status}

\* C35: a bake sample is consulted only for a subnet that runs its desired
\* version and belongs to a stage the walk evaluates: when the only missing
\* samples are those of subnets that are not on their desired version or
\* that belong to a stage after the returned stage, check_stages does not
\* fail for a missing sample.
C35_BakeConsulted ==
    (Resolved /\ Consulted \cap WithoutSample = {}) => result.kind # "Err"

\* no subnet has a sample: the subnet of the returned stage is not on its
\* desired version, a subnet of a later stage is, and the call returns the
\* PlaceProposal of the first
C35_Witness ==
    /\ Resolved
    /\ WithoutSample = Fleet
    /\ Evaluated = {1}
    /\ result = StageResult(1)
    /\ result.kind = "Ok"
    /\ \E a \in Actions : a.type = "PlaceProposal"
    /\ \E principal \in Named(StageAt(3).subnets[2]) :
          CurrentVersion(principal) = DesiredVersion(principal)

-----------------------------------------------------------------------------
(* C36: a held-back stage without subnets.                                  *)

\* C36: a reached stage with wait_for_next_week and an empty subnet list,
\* an unassigned-nodes stage with the flag in particular, makes check_stages
\* return the empty action list while the week has not passed: the
\* unassigned nodes get no action and no later stage is evaluated, as if the
\* rollout were finished.
C36_EmptyWait ==
    \A k \in 1..NumStages :
        (/\ should_proceed(index, now)
         /\ Reached(k)
         /\ StageAt(k).wait_for_next_week
         /\ StageAt(k).subnets = <<>>
         /\ ~MondaySinceStart)
          => result = Ok(<<>>)

\* the unassigned-nodes stage is held back: the unassigned nodes and the
\* subnets of the stage after it do not run their desired versions, nothing
\* is finished, and the result is empty
C36_Witness ==
    /\ should_proceed(index, now)
    /\ NumStages = 3
    /\ Reached(2)
    /\ StageAt(2).wait_for_next_week
    /\ StageAt(2).update_unassigned_nodes
    /\ ~MondaySinceStart
    /\ unassigned_version # Desired.unassigned_nodes.version
    /\ \E j \in 1..Len(StageAt(3).subnets) :
          CurrentVersion(SubnetOf(3, j)) # DesiredVersion(SubnetOf(3, j))
    /\ ~Finished
    /\ result = Ok(<<>>)

-----------------------------------------------------------------------------
(* C37: the unassigned nodes' version and the active release.               *)

\* the versions the unassigned nodes may run
UnassignedVersions == {"A.default", "B.default", "C.default", "X.unknown"}

\* the snapshot with another version of the unassigned nodes
WithUnassigned(version) == [Snapshot EXCEPT !.unassigned_version = version]

\* the result of the call on a snapshot
ResultIn(snap) ==
    Tick(snap.last_bake_status, snap.subnet_update_proposals,
         snap.unassigned_node_update_proposals, snap.index,
         snap.unassigned_version, snap.subnets, snap.now)

\* C37: the unassigned nodes' current version takes no part in resolving
\* the active release or the two-release limit: with another
\* unassigned_version and nothing else changed, every subnet's desired
\* version is the same, the call fails for more than two releases (or for an
\* unknown version) in the same cases, and the result is the same unless the
\* walk evaluates an unassigned-nodes stage.
C37_UnassignedVersionFrame ==
    \A version \in UnassignedVersions :
        /\ DesiredIn(WithUnassigned(version)) = Desired
        /\ (ResultIn(WithUnassigned(version)).kind = "Panic")
              <=> (result.kind = "Panic")
        /\ result.kind = "Panic" => ResultIn(WithUnassigned(version)) = result
        /\ EvaluatedUnassigned = {} => ResultIn(WithUnassigned(version)) = result

\* the registry shows the unassigned nodes on a third release, the subnets
\* run two others, and the call returns the Baking of the first stage as
\* before
C37_Witness ==
    /\ VersionsKnown
    /\ Cardinality(ReleasesInUse) = 2
    /\ \A k \in ReleasesInUse : unassigned_version \notin VersionsOf(index.releases[k])
    /\ unassigned_version # "B.default"
    /\ EvaluatedUnassigned = {}
    /\ result.kind = "Ok"
    /\ \E a \in Actions : a.type = "Baking"
    /\ result = ResultIn(WithUnassigned("B.default"))

====
